---- MODULE Spec2Model ----
(***************************************************************************)
(* Robot service (src/robot_service/main.py): the task registry TASKS, the *)
(* pose-waiter set POSE_WAITERS, the telemetry subscriber                  *)
(* zmq_state_listener, the garbage collector cleanup_old_tasks and the     *)
(* request handlers dispense, status and pose_snapshot, as coroutines of   *)
(* one asyncio event loop.                                                 *)
(*                                                                         *)
(* Every coroutine runs without interruption between two suspension       *)
(* points (an await that really yields: the HTTP call, the feed receive,   *)
(* the pose wait, a sleep, the exit of the HTTP client context).  The      *)
(* asyncio locks are only ever held across code that does not suspend, so  *)
(* an `async with LOCK` block never waits and is part of the step that     *)
(* contains it.  One action of the model is one such run.                  *)
(*                                                                         *)
(* Units: time in seconds; joint values in hundredths (TOL = 0.03 is 3).   *)
(***************************************************************************)
EXTENDS Integers, Sequences, FiniteSets, TLC

\* ------------------------------------------------------------------ bounds
MaxDispense == 2    \* dispense requests that arrive
MaxPose     == 2    \* pose-snapshot requests that arrive
MaxTicks    == 2    \* advances of the clock
MaxSnap     == 2    \* snapshot requests that arrive at the vision bridge

\* ------------------------------------------------------- program constants
TOL                   == 3       \* main.py:17, TOL = 0.03
MAX_TASK_AGE          == 3600    \* main.py:58
TASK_CLEANUP_INTERVAL == 300     \* main.py:57
INFERENCE_TIMEOUT     == 60      \* main.py:141, httpx.AsyncClient(timeout=60.0)
POSE_WAIT_TIMEOUT     == 30      \* main.py:188, wait_for(fut, timeout=30.0)
VISION_TIMEOUT        == 30      \* main.py:199, httpx.AsyncClient(timeout=30.0)
VOLUME_MAX            == 50      \* main.py:43, Field(gt=0.0, le=50.0)
CAMERA_TIMEOUT        == 10      \* vision_bridge/main.py:56, timeout=10.0

\* main.py:16, TARGET_POSE default "[0,0,0,0,0,0]"
TARGET_POSE == <<0, 0, 0, 0, 0, 0>>

DispenseIds == 1..MaxDispense
PoseIds     == 1..MaxPose
SnapIds     == 1..MaxSnap

\* A cmd_id a client can put in a URL: a generated task id, or one that no
\* dispense ever generated.
UnknownId == 0
CmdIds    == {UnknownId} \cup DispenseIds

\* The cmd_ids pose-snapshot is asked for: the unknown one, or the first
\* task's (before, while or after that task is in the registry).
PoseCmdIds == {UnknownId, 1}

\* Clock advances the model takes: one pose/vision timeout (half an
\* inference timeout), or one retention window (twelve GC intervals).
TickSteps == {POSE_WAIT_TIMEOUT, MAX_TASK_AGE}

VARIABLES
    TASKS,          \* main.py:56   task id -> DispenseStatus record
    POSE_WAITERS,   \* main.py:122  set of futures (named by their pose call)
    fut,            \* the asyncio.Future of each pose_snapshot call
    disp,           \* the dispense coroutines
    pose,           \* the pose_snapshot coroutines
    spc,            \* where zmq_state_listener is suspended
    gcWake,         \* when cleanup_old_tasks' sleep ends
    now,            \* time.time()
    ticks,          \* clock advances so far
    reply,          \* the HTTP response sent by the step just taken
    \* The vision bridge (src/vision_bridge/main.py), a process of its own.
    snap,           \* the snapshot coroutines
    bucket,         \* the keys of the objects uploaded to BUCKET
    SNAP_OK,        \* vision_bridge/main.py:29
    SNAP_ERR,       \* vision_bridge/main.py:30
    vnow,           \* the vision bridge's clock
    vreply,         \* the HTTP response sent by the step just taken
    \* The rule extractor (src/aloha-lite-demo2rule/demo2rules.py), a
    \* command-line program of its own: one call of
    \* detect_segments_from_matrix.
    ts,             \* the frames' timestamps, in tenths of a second
    mat,            \* the trajectory: one row of D values per frame
    vel_thresh,     \* in hundredths per second
    window,         \* in frames
    segments,       \* what the call returned
    \* The robot service's coroutines by their lock operations.
    TASKS_LOCK,         \* main.py:124  the coroutine that holds the lock
    POSE_WAITERS_LOCK,  \* main.py:123  the coroutine that holds the lock
    label,              \* the label each coroutine is at
    cur                 \* the coroutine the event loop is running

\* The robot service's variables, the vision bridge's, the rule
\* extractor's, and all of them.
rvars == <<TASKS, POSE_WAITERS, fut, disp, pose, spc, gcWake, now,
           ticks, reply>>
vvars == <<snap, bucket, SNAP_OK, SNAP_ERR, vnow, vreply>>
dvars == <<ts, mat, vel_thresh, window, segments>>
lvars == <<TASKS_LOCK, POSE_WAITERS_LOCK, label, cur>>
vars == <<TASKS, POSE_WAITERS, fut, disp, pose, spc, gcWake, now,
          ticks, reply, snap, bucket, SNAP_OK, SNAP_ERR, vnow, vreply,
          ts, mat, vel_thresh, window, segments,
          TASKS_LOCK, POSE_WAITERS_LOCK, label, cur>>

\* ----------------------------------------------------------------- helpers
Abs(x) == IF x < 0 THEN 0 - x ELSE x
Min(a, b) == IF a < b THEN a ELSE b

\* ---------------------------------------------------------- DispenseRequest
\* main.py:39-43.  volume_ml in millilitres.
Colours == {"red", "green", "blue"}

\* ValidRequest with ge=0.0 in place of gt=0.0.
ValidRequestInclusive(req) ==
    /\ req.colour \in Colours
    /\ req.volume_ml >= 0
    /\ req.volume_ml <= VOLUME_MAX

ValidRequest(req) ==
    /\ req.colour \in Colours
    /\ req.volume_ml > 0
    /\ req.volume_ml <= VOLUME_MAX

Requests ==
    { [colour |-> "red",    volume_ml |-> 10],
      [colour |-> "blue",   volume_ml |-> 50],
      [colour |-> "purple", volume_ml |-> 10],
      [colour |-> "red",    volume_ml |-> 0],
      [colour |-> "green",  volume_ml |-> 51],
      [colour |-> "green",  volume_ml |-> 75] }

\* -------------------------------------------------------------- pose_close
\* main.py:61-62: all(abs(a-b) < TOL for a, b in zip(q, TARGET_POSE)).
\* zip stops at the shorter of its arguments.
RECURSIVE zip(_, _)
zip(q, t) ==
    IF q = <<>> \/ t = <<>> THEN <<>>
    ELSE <<<<Head(q), Head(t)>>>> \o zip(Tail(q), Tail(t))

RECURSIVE all_close(_)
all_close(pairs) ==
    IF pairs = <<>> THEN TRUE
    ELSE IF Abs(Head(pairs)[1] - Head(pairs)[2]) < TOL
         THEN all_close(Tail(pairs))
         ELSE FALSE

\* pose_close with <= in place of <.
pose_close_inclusive(q) ==
    \A i \in 1..Min(Len(q), Len(TARGET_POSE)) :
        Abs(q[i] - TARGET_POSE[i]) <= TOL

\* pose_close with zip(q, TARGET_POSE, strict=True) and a length mismatch
\* taken as "not converged".
pose_close_same_length(q) ==
    /\ Len(q) = Len(TARGET_POSE)
    /\ all_close(zip(q, TARGET_POSE))

pose_close(q) == all_close(zip(q, TARGET_POSE))

\* ------------------------------------------------------- telemetry messages
\* What recv_multipart delivers (main.py:72-73).  kind:
\*   "garbage"   raw bytes that json.loads rejects (JSONDecodeError)
\*   "nojoints"  a JSON object without a "joints" key
\*   "badjoints" a JSON object whose "joints" is not a list of numbers
\*               (pose_close raises TypeError)
\*   "ok"        a JSON object with a joint vector
\* status is msg.get("status"): "" when the key is absent.
Msg(k, q, s) == [kind |-> k, joints |-> q, status |-> s]

NoMsg == Msg("none", <<>>, "")

JointsNear  == <<TOL - 1, 1 - TOL, TOL - 1, 1 - TOL, TOL - 1, 1 - TOL>>
JointsEdge  == <<0, 0, 0, 0, 0, TOL>>
JointsEdgeN == <<0 - TOL, 0, 0, 0, 0, 0>>
JointsShort == <<>>
JointsLong  == <<0, 0, 0, 0, 0, 0, TOL + 5>>

Msgs ==
    { Msg("garbage",   <<>>, ""),
      Msg("nojoints",  <<>>, "success"),
      Msg("badjoints", <<>>, "success"),
      Msg("ok", JointsNear,  "success"),
      Msg("ok", JointsEdge,  "success"),
      Msg("ok", JointsEdgeN, ""),
      Msg("ok", JointsShort, ""),
      Msg("ok", JointsLong,  "moving") }

\* ---------------------------------------------------------- DispenseStatus
\* main.py:50-53.  predicted_squeeze_sec is "null" (None) or a number token.
DispenseStatus(st, at) ==
    [status |-> st, predicted_squeeze_sec |-> "null", created_at |-> at]

\* The inference endpoint's answers (main.py:142-150).
\*   "ok"        200, body {"predicted_squeeze_sec": 1.23}
\*   "bad_json"  200, body that .json() cannot decode
\*   "non200"    any other status code
\*   "timeout"   httpx.TimeoutException
\*   "error"     any other transport error
InferenceOutcomes == {"ok", "bad_json", "non200", "timeout", "error"}

\* A further answer: "ok_null", 200 with a body that has no
\* "predicted_squeeze_sec" key.
InferenceAnswers == InferenceOutcomes \cup {"ok_null"}

\* squeeze reading a key the answer does not have.
squeeze_wrong_key(o) == "null"

\* main.py:150: phos_resp.json().get("predicted_squeeze_sec").
squeeze(o) == IF o = "ok" THEN "1.23" ELSE "null"
InferenceFailures == {"non200", "timeout", "error"}

\* The vision bridge's answers (main.py:200-211).
VisionOutcomes == {"ok", "non200", "timeout", "error"}

\* ----------------------------------------------------------------- replies
\* An HTTP response: op is the endpoint, call the dispense or pose call it
\* answers (0 for status and for a request rejected before its handler),
\* code the status code, error the exception behind an error code, and the
\* rest the body.
NoReply == [op |-> "", call |-> 0, code |-> 0, error |-> "", cmd_id |-> UnknownId,
            status |-> "", predicted_squeeze_sec |-> "null", created_at |-> 0]

HTTPError(o, c, code) ==
    [NoReply EXCEPT !.op = o, !.call = c, !.code = code,
                    !.error = "HTTPException"]

\* An exception no handler catches: the framework answers 500.
Unhandled(o, c, e) ==
    [NoReply EXCEPT !.op = o, !.call = c, !.code = 500, !.error = e]

\* ------------------------------------------------------------------- Init
\* state: "none" before the call creates it, then "pending", then
\* "resolved" (set_result) or "cancelled", and "gone" once the coroutine
\* that owns it has left the wait and dropped it.
NoFut == [state |-> "none", result |-> NoMsg]
GoneFut == [state |-> "gone", result |-> NoMsg]

\* pc: "idle" before the request arrives, "inflight" while the POST to the
\* inference endpoint is awaited, "closing" while the HTTP client context
\* closes, then "returned" (a 200 response) or "raised" (an exception).
IdleDispense == [pc |-> "idle", issuedAt |-> 0]

\* pc: "idle" before the request arrives, "waiting" in wait_for, "capture"
\* while the POST to the vision bridge is awaited, then "done".
IdlePose == [pc |-> "idle", cmd |-> UnknownId, deadline |-> 0, why |-> "",
             capAt |-> 0]

\* ---------------------------------------------------- vision bridge records
\* vision_bridge/main.py:45-47.  cam_id defaults to "top_cam".
SnapReqs ==
    { [cmd_id |-> 1, cam_id |-> "top_cam"],
      [cmd_id |-> UnknownId, cam_id |-> "c"] }

\* vision_bridge/main.py:51-52: key = f"{cmd_id}/{cam_id}_{ts}.jpg", its ts the
\* time of the request to the second.
Key(req, stamp) == <<req.cmd_id, req.cam_id, stamp>>
NoKey == <<>>

\* The camera's answers (vision_bridge/main.py:57-63).
\*   "ok"       200 with the image bytes
\*   "non200"   any other status code
\*   "timeout"  httpx.TimeoutException
\*   "error"    any other transport error
CameraOutcomes == {"ok", "non200", "timeout", "error"}

\* s3.upload_fileobj and s3.generate_presigned_url (vision_bridge/main.py:
\* 64-69) return, or raise.
S3Outcomes == {"ok", "raises"}

\* The files posted to /color-checker, by what cv2.imdecode makes of their
\* bytes (vision_bridge/main.py:85-88) and what the detection then does.
\*   "chart"    an image with a colour checker in it
\*   "plain"    an image without one
\*   "hard"     an image on which the detection raises
\*   "text"     bytes that are no image: imdecode returns None
\*   "empty"    no bytes: imdecode raises cv2.error
Uploads == {"chart", "plain", "hard", "text", "empty"}

\* An HTTP response of the vision bridge: url is the key the presigned URL
\* points to, detections the number of detections in the body (-1: none).
NoVReply == [op |-> "", call |-> 0, code |-> 0, error |-> "", url |-> NoKey,
             detections |-> 0 - 1]

VHTTPError(o, c, code) ==
    [NoVReply EXCEPT !.op = o, !.call = c, !.code = code,
                     !.error = "HTTPException"]

\* pc: "idle" before the request arrives, "camera" while the GET to the
\* camera is awaited, "closing" while the HTTP client context closes, then
\* "done".
IdleSnap == [pc |-> "idle", key |-> NoKey, issuedAt |-> 0]

\* ------------------------------------------------------------------- locks
\* The coroutines of the robot service by their lock operations
\* (main.py:65-211).  A coroutine is at a label of its code: the statement
\* it executes next, or the await it is suspended at.  The loop runs one
\* coroutine at a time, from the await it resumes from to the next await;
\* `async with LOCK` takes a free lock without suspending, and suspends the
\* coroutine when the lock is held.
\*   op     "await"    a suspension point; next: where it may resume
\*          "acquire"  entering `async with on`
\*          "touch"    an access (read, write, iteration) to the structure on
\*          "release"  leaving `async with on`
\*          "end"      the call has returned or raised (label "end")
\*   held   the locks whose `async with` blocks enclose the statement
Ins(o, x, h, n) == [op |-> o, on |-> x, held |-> h, next |-> n]

LockOf(structure) ==
    IF structure = "TASKS" THEN "TASKS_LOCK" ELSE "POSE_WAITERS_LOCK"

\* Acquire, access, release: `async with lock: <access>` at labels a, b, c,
\* going on to label n.
Block(a, b, c, structure, n) ==
    a :> Ins("acquire", LockOf(structure), {}, {b})
    @@ b :> Ins("touch", structure, {LockOf(structure)}, {c})
    @@ c :> Ins("release", LockOf(structure), {LockOf(structure)}, {n})

\* main.py:70-100.  The receive resumes into the broadcast (82), into the
\* scan (92), into the sleep (an exception, 96-100) or, by `continue` (78),
\* into the next receive.
zmq_state_listener_code ==
    "72" :> Ins("await", "recv_multipart", {}, {"72", "82", "92", "100"})
    @@ Block("82", "84", "90", "POSE_WAITERS", "92")
    @@ Block("92", "93", "95", "TASKS", "100")
    @@ "100" :> Ins("await", "sleep", {}, {"72"})

\* cleanup_old_tasks taking the waiters' lock inside the block of the
\* tasks' lock.
cleanup_old_tasks_nested ==
    "105" :> Ins("await", "sleep", {}, {"108"})
    @@ "108" :> Ins("acquire", "TASKS_LOCK", {}, {"109"})
    @@ "109" :> Ins("touch", "TASKS", {"TASKS_LOCK"}, {"117"})
    @@ "117" :> Ins("acquire", "POSE_WAITERS_LOCK", {"TASKS_LOCK"}, {"118"})
    @@ "118" :> Ins("touch", "POSE_WAITERS",
                    {"TASKS_LOCK", "POSE_WAITERS_LOCK"}, {"120"})
    @@ "120" :> Ins("release", "POSE_WAITERS_LOCK",
                    {"TASKS_LOCK", "POSE_WAITERS_LOCK"}, {"114"})
    @@ "114" :> Ins("release", "TASKS_LOCK", {"TASKS_LOCK"}, {"105"})

\* main.py:104-120.
cleanup_old_tasks_code ==
    "105" :> Ins("await", "sleep", {}, {"108"})
    @@ Block("108", "109", "114", "TASKS", "117")
    @@ Block("117", "118", "120", "POSE_WAITERS", "105")

\* dispense with the inference call awaited inside the block of line 138.
dispense_post_locked ==
    "132" :> Ins("await", "request", {}, {"138"})
    @@ "138" :> Ins("acquire", "TASKS_LOCK", {}, {"139"})
    @@ "139" :> Ins("touch", "TASKS", {"TASKS_LOCK"}, {"142"})
    @@ "142" :> Ins("await", "post", {"TASKS_LOCK"}, {"140"})
    @@ "140" :> Ins("release", "TASKS_LOCK", {"TASKS_LOCK"}, {"154"})
    @@ Block("154", "155", "155r", "TASKS", "end")
    @@ "end" :> Ins("end", "", {}, {})

\* main.py:132-165.  The POST resumes into the non-200 branch (145), into
\* the 200 branch (151), or into a handler (157, 162); the non-200 branch
\* raises into the handler of line 161; the 200 branch leaves the client
\* context (153, an await) and returns under the lock (154-155).
dispense_code ==
    "132" :> Ins("await", "request", {}, {"138"})
    @@ Block("138", "139", "140", "TASKS", "142")
    @@ "142" :> Ins("await", "post", {}, {"145", "151", "157", "162"})
    @@ Block("145", "146", "147", "TASKS", "162")
    @@ Block("151", "152", "152r", "TASKS", "153")
    @@ "153" :> Ins("await", "aclose", {}, {"154"})
    @@ Block("154", "155", "155r", "TASKS", "end")
    @@ Block("157", "158", "159", "TASKS", "end")
    @@ Block("162", "163", "164", "TASKS", "end")
    @@ "end" :> Ins("end", "", {}, {})

\* main.py:169-174.  The handler can be called again and again.
status_code ==
    "169" :> Ins("await", "request", {}, {"170"})
    @@ Block("170", "171", "174", "TASKS", "169")

\* main.py:178-211.  wait_for resumes into the `finally` (194: resolved, or
\* cancelled by the caller) or into the timeout handler (190), which raises
\* through the `finally` ("194t").
pose_snapshot_code ==
    "178" :> Ins("await", "request", {}, {"184"})
    @@ Block("184", "185", "186", "POSE_WAITERS", "188")
    @@ "188" :> Ins("await", "wait_for", {}, {"190", "194", "194c"})
    @@ Block("190", "191", "192", "POSE_WAITERS", "194t")
    @@ Block("194t", "195t", "196t", "POSE_WAITERS", "end")
    @@ Block("194c", "195c", "196c", "POSE_WAITERS", "end")
    @@ Block("194", "195", "196", "POSE_WAITERS", "200")
    @@ "200" :> Ins("await", "post", {}, {"end"})
    @@ "end" :> Ins("end", "", {}, {})

\* The coroutines: the two background tasks (main.py:125-126), the status
\* handler, and one coroutine per dispense and per pose-snapshot request.
NoFlow == <<"", 0>>
Flows ==
    {<<"zmq_state_listener", 0>>, <<"cleanup_old_tasks", 0>>, <<"status", 0>>}
    \cup {<<"dispense", d>> : d \in DispenseIds}
    \cup {<<"pose_snapshot", p>> : p \in PoseIds}

CodeOf(f) ==
    CASE f[1] = "zmq_state_listener" -> zmq_state_listener_code
      [] f[1] = "cleanup_old_tasks" -> cleanup_old_tasks_code
      [] f[1] = "dispense" -> dispense_code
      [] f[1] = "status" -> status_code
      [] OTHER -> pose_snapshot_code

Entry(f) ==
    CASE f[1] = "zmq_state_listener" -> "72"
      [] f[1] = "cleanup_old_tasks" -> "105"
      [] f[1] = "dispense" -> "132"
      [] f[1] = "status" -> "169"
      [] OTHER -> "178"

\* The statement coroutine f is at.
Cur(f) == CodeOf(f)[label[f]]

Holder(lock) ==
    IF lock = "TASKS_LOCK" THEN TASKS_LOCK ELSE POSE_WAITERS_LOCK

Suspends(i) == i.op \in {"await", "end"}

\* Coroutine f moves to label n, with the locks' holders t and p: it keeps
\* the loop unless n is a suspension point.
Goto(f, n, t, p) ==
    /\ label' = [label EXCEPT ![f] = n]
    /\ cur' = IF Suspends(CodeOf(f)[n]) THEN NoFlow ELSE f
    /\ TASKS_LOCK' = t
    /\ POSE_WAITERS_LOCK' = p

\* Coroutine f takes the lock it is at, or suspends until it is free.
Acquire(f) ==
    IF Holder(Cur(f).on) = NoFlow
    THEN \E n \in Cur(f).next :
            Goto(f, n,
                 IF Cur(f).on = "TASKS_LOCK" THEN f ELSE TASKS_LOCK,
                 IF Cur(f).on = "POSE_WAITERS_LOCK" THEN f
                                                     ELSE POSE_WAITERS_LOCK)
    ELSE /\ cur' = NoFlow
         /\ UNCHANGED <<label, TASKS_LOCK, POSE_WAITERS_LOCK>>

\* The loop resumes a coroutine: one suspended at an await, the awaited
\* thing being done, or one that waits for a lock that is free.
Resume(f) ==
    /\ cur = NoFlow
    /\ CASE Cur(f).op = "await" ->
              \E n \in Cur(f).next : Goto(f, n, TASKS_LOCK, POSE_WAITERS_LOCK)
         [] Cur(f).op = "acquire" ->
              Holder(Cur(f).on) = NoFlow /\ Acquire(f)
         [] OTHER -> FALSE

\* The running coroutine executes the statement it is at.
Step(f) ==
    /\ cur = f
    /\ CASE Cur(f).op = "acquire" -> Acquire(f)
         [] Cur(f).op = "touch" ->
              \E n \in Cur(f).next : Goto(f, n, TASKS_LOCK, POSE_WAITERS_LOCK)
         [] Cur(f).op = "release" ->
              \E n \in Cur(f).next :
                  Goto(f, n,
                       IF Cur(f).on = "TASKS_LOCK" THEN NoFlow ELSE TASKS_LOCK,
                       IF Cur(f).on = "POSE_WAITERS_LOCK"
                       THEN NoFlow ELSE POSE_WAITERS_LOCK)
         [] OTHER -> FALSE

\* main.py:122-126: the locks are free, the background tasks are created
\* and no request has arrived.
InitLocks ==
    /\ label = [f \in Flows |-> Entry(f)]
    /\ cur = NoFlow
    /\ TASKS_LOCK = NoFlow
    /\ POSE_WAITERS_LOCK = NoFlow

\* The two services after start-up.
InitServices ==
    /\ InitLocks
    /\ snap = [s \in SnapIds |-> IdleSnap]
    /\ bucket = {}
    /\ SNAP_OK = 0
    /\ SNAP_ERR = 0
    /\ vnow = 0
    /\ vreply = NoVReply
    /\ TASKS = <<>>
    /\ POSE_WAITERS = {}
    /\ fut = [p \in PoseIds |-> NoFut]
    /\ disp = [d \in DispenseIds |-> IdleDispense]
    /\ pose = [p \in PoseIds |-> IdlePose]
    /\ spc = "recv"
    /\ gcWake = TASK_CLEANUP_INTERVAL
    /\ now = 0
    /\ ticks = 0
    /\ reply = NoReply

\* segments before the call has returned: no list of frame pairs.
NotRun == << <<0 - 1, 0 - 1>> >>

\* The services, and a rule extractor that was given no trajectory.
Init ==
    /\ InitServices
    /\ ts = <<>>
    /\ mat = <<>>
    /\ vel_thresh = 3
    /\ window = 15
    /\ segments = NotRun

\* Calls are numbered in arrival order.
Arrives(calls, k) ==
    /\ calls[k].pc = "idle"
    /\ IF k = 1 THEN TRUE ELSE calls[k - 1].pc # "idle"

\* ---------------------------------------------------------------- dispense
\* main.py:39-43: pydantic rejects the body before the handler runs; FastAPI
\* answers 422.
DispenseReject(req) ==
    /\ ~ValidRequest(req)
    /\ reply' = HTTPError("dispense", 0, 422)
    /\ UNCHANGED <<TASKS, POSE_WAITERS, fut, disp, pose, spc, gcWake,
                   now, ticks>>

\* DispenseStart without the registration: the POST is issued for an id
\* that is not in TASKS.
DispenseStartUnregistered(d, req) ==
    /\ Arrives(disp, d)
    /\ ValidRequest(req)
    /\ disp' = [disp EXCEPT ![d] = [pc |-> "inflight", issuedAt |-> now]]
    /\ reply' = NoReply
    /\ UNCHANGED <<TASKS, POSE_WAITERS, fut, pose, spc, gcWake, now, ticks>>

\* main.py:133-143: tid = uuid4() (the task id of call d is d: fresh for
\* every call); TASKS[tid] = DispenseStatus(status="running") under the
\* lock; then, with nothing that suspends in between, the POST to the
\* inference endpoint is issued and the coroutine waits for the answer.
DispenseStart(d, req) ==
    /\ Arrives(disp, d)
    /\ ValidRequest(req)
    /\ TASKS' = [t \in DOMAIN TASKS \cup {d} |->
                    IF t = d THEN DispenseStatus("running", now) ELSE TASKS[t]]
    /\ disp' = [disp EXCEPT ![d] = [pc |-> "inflight", issuedAt |-> now]]
    /\ reply' = NoReply
    /\ UNCHANGED <<POSE_WAITERS, fut, pose, spc, gcWake, now, ticks>>

\* MarkFailed without the write to TASKS: the error is surfaced only.
MarkFailedUnrecorded(d, code) ==
    /\ disp' = [disp EXCEPT ![d] = [pc |-> "raised", issuedAt |-> 0]]
    /\ TASKS' = TASKS
    /\ reply' = HTTPError("dispense", d, code)

\* main.py:156-165: the except handlers.  TASKS[tid] on an id the GC removed
\* raises KeyError inside the handler, which nothing catches.
MarkFailed(d, code) ==
    /\ disp' = [disp EXCEPT ![d] = [pc |-> "raised", issuedAt |-> 0]]
    /\ IF d \in DOMAIN TASKS
       THEN /\ TASKS' = [TASKS EXCEPT ![d].status = "failed"]
            /\ reply' = HTTPError("dispense", d, code)
       ELSE /\ TASKS' = TASKS
            /\ reply' = Unhandled("dispense", d, "KeyError")

\* DispenseReply without the `except httpx.TimeoutException` clause: a
\* timeout falls to `except Exception`.
DispenseReplyNoTimeoutClause(d, o) ==
    /\ disp[d].pc = "inflight"
    /\ o = "timeout" => now - disp[d].issuedAt >= INFERENCE_TIMEOUT
    /\ CASE o \in {"timeout", "non200", "error", "bad_json"} ->
              MarkFailed(d, 500)
         [] OTHER ->
              IF d \in DOMAIN TASKS
              THEN /\ TASKS' = [TASKS EXCEPT
                                  ![d].predicted_squeeze_sec = squeeze(o)]
                   /\ disp' = [disp EXCEPT ![d] = [pc |-> "closing",
                                                   issuedAt |-> 0]]
                   /\ reply' = NoReply
              ELSE MarkFailed(d, 500)
    /\ UNCHANGED <<POSE_WAITERS, fut, pose, spc, gcWake, now, ticks>>

\* main.py:144-152: the answer of the inference endpoint arrives.
\* A non-200 answer marks the task failed and raises HTTPException(502)
\* inside the try block, where `except Exception` (main.py:161) catches it,
\* marks the task failed again and raises HTTPException(500).
DispenseReply(d, o) ==
    /\ disp[d].pc = "inflight"
    /\ o = "timeout" => now - disp[d].issuedAt >= INFERENCE_TIMEOUT
    /\ CASE o = "timeout" -> MarkFailed(d, 504)
         [] o \in {"non200", "error", "bad_json"} -> MarkFailed(d, 500)
         [] OTHER ->
              IF d \in DOMAIN TASKS
              THEN /\ TASKS' = [TASKS EXCEPT
                                  ![d].predicted_squeeze_sec = squeeze(o)]
                   /\ disp' = [disp EXCEPT ![d] = [pc |-> "closing",
                                                   issuedAt |-> 0]]
                   /\ reply' = NoReply
              ELSE MarkFailed(d, 500)
    /\ UNCHANGED <<POSE_WAITERS, fut, pose, spc, gcWake, now, ticks>>

\* DispenseReturn answering the status the task was created with instead
\* of reading it from TASKS.
DispenseReturnStale(d) ==
    /\ disp[d].pc = "closing"
    /\ d \in DOMAIN TASKS
    /\ disp' = [disp EXCEPT ![d].pc = "returned"]
    /\ reply' = [op |-> "dispense", call |-> d, code |-> 200, error |-> "",
                 cmd_id |-> d, status |-> "running",
                 predicted_squeeze_sec |-> TASKS[d].predicted_squeeze_sec,
                 created_at |-> TASKS[d].created_at]
    /\ UNCHANGED <<TASKS, POSE_WAITERS, fut, pose, spc, gcWake, now, ticks>>

\* main.py:154-155, after the client context has closed:
\* return {"cmd_id": tid, **TASKS[tid].model_dump()}.
DispenseReturn(d) ==
    /\ disp[d].pc = "closing"
    /\ IF d \in DOMAIN TASKS
       THEN /\ disp' = [disp EXCEPT ![d].pc = "returned"]
            /\ reply' = [op |-> "dispense", call |-> d, code |-> 200,
                         error |-> "", cmd_id |-> d,
                         status |-> TASKS[d].status,
                         predicted_squeeze_sec |->
                             TASKS[d].predicted_squeeze_sec,
                         created_at |-> TASKS[d].created_at]
            /\ TASKS' = TASKS
       ELSE MarkFailed(d, 500)
    /\ UNCHANGED <<POSE_WAITERS, fut, pose, spc, gcWake, now, ticks>>

\* ------------------------------------------------------------------ status
\* main.py:168-174.
StatusOf(cmd) ==
    IF cmd \in DOMAIN TASKS
    THEN [op |-> "status", call |-> 0, code |-> 200, error |-> "",
          cmd_id |-> cmd, status |-> TASKS[cmd].status,
          predicted_squeeze_sec |-> TASKS[cmd].predicted_squeeze_sec,
          created_at |-> TASKS[cmd].created_at]
    ELSE [HTTPError("status", 0, 404) EXCEPT !.cmd_id = cmd]

\* status with TASKS.pop(cmd_id, None) in place of TASKS.get(cmd_id).
status_pop(cmd) ==
    /\ reply' = StatusOf(cmd)
    /\ TASKS' = [t \in DOMAIN TASKS \ {cmd} |-> TASKS[t]]
    /\ UNCHANGED <<POSE_WAITERS, fut, disp, pose, spc, gcWake, now, ticks>>

status(cmd) ==
    /\ reply' = StatusOf(cmd)
    /\ UNCHANGED <<TASKS, POSE_WAITERS, fut, disp, pose, spc, gcWake,
                   now, ticks>>

\* ----------------------------------------------------------- pose_snapshot
\* PoseRegister handing out a future that is already done.
PoseRegisterDone(p, cmd) ==
    /\ Arrives(pose, p)
    /\ fut' = [fut EXCEPT ![p] = [NoFut EXCEPT !.state = "resolved"]]
    /\ POSE_WAITERS' = POSE_WAITERS \cup {p}
    /\ pose' = [pose EXCEPT ![p].pc = "waiting", ![p].cmd = cmd,
                            ![p].deadline = now + POSE_WAIT_TIMEOUT]
    /\ reply' = NoReply
    /\ UNCHANGED <<TASKS, disp, spc, gcWake, now, ticks>>

\* PoseRegister that looks the cmd_id up in TASKS first and answers 404
\* when it is not there.
PoseRegisterKnownOnly(p, cmd) ==
    /\ Arrives(pose, p)
    /\ IF cmd \in DOMAIN TASKS
       THEN /\ fut' = [fut EXCEPT ![p] = [NoFut EXCEPT !.state = "pending"]]
            /\ POSE_WAITERS' = POSE_WAITERS \cup {p}
            /\ pose' = [pose EXCEPT ![p].pc = "waiting", ![p].cmd = cmd,
                                    ![p].deadline = now + POSE_WAIT_TIMEOUT]
            /\ reply' = NoReply
       ELSE /\ pose' = [pose EXCEPT ![p] = [IdlePose EXCEPT !.pc = "done"]]
            /\ reply' = HTTPError("pose-snapshot", p, 404)
            /\ UNCHANGED <<fut, POSE_WAITERS>>
    /\ UNCHANGED <<TASKS, disp, spc, gcWake, now, ticks>>

\* main.py:183-188: create the future, add it to POSE_WAITERS under the
\* lock, start wait_for(fut, timeout=30.0).
PoseRegister(p, cmd) ==
    /\ Arrives(pose, p)
    /\ fut' = [fut EXCEPT ![p] = [NoFut EXCEPT !.state = "pending"]]
    /\ POSE_WAITERS' = POSE_WAITERS \cup {p}
    /\ pose' = [pose EXCEPT ![p].pc = "waiting", ![p].cmd = cmd,
                            ![p].deadline = now + POSE_WAIT_TIMEOUT]
    /\ reply' = NoReply
    /\ UNCHANGED <<TASKS, disp, spc, gcWake, now, ticks>>

\* PoseTimerFire that does not wait for the deadline.
PoseTimerFireEarly(p) ==
    /\ pose[p].pc = "waiting"
    /\ fut[p].state = "pending"
    /\ fut' = [fut EXCEPT ![p].state = "cancelled"]
    /\ pose' = [pose EXCEPT ![p].why = "timeout"]
    /\ reply' = NoReply
    /\ UNCHANGED <<TASKS, POSE_WAITERS, disp, spc, gcWake, now,
                   ticks>>

\* wait_for's timer (main.py:188): at the deadline a still pending future
\* is cancelled; the waiting coroutine is woken in a later loop iteration.
PoseTimerFire(p) ==
    /\ pose[p].pc = "waiting"
    /\ fut[p].state = "pending"
    /\ now >= pose[p].deadline
    /\ fut' = [fut EXCEPT ![p].state = "cancelled"]
    /\ pose' = [pose EXCEPT ![p].why = "timeout"]
    /\ reply' = NoReply
    /\ UNCHANGED <<TASKS, POSE_WAITERS, disp, spc, gcWake, now,
                   ticks>>

\* The caller goes away while the wait is pending: the request task is
\* cancelled, which cancels the future it awaits.
PoseCancel(p) ==
    /\ pose[p].pc = "waiting"
    /\ fut[p].state = "pending"
    /\ fut' = [fut EXCEPT ![p].state = "cancelled"]
    /\ pose' = [pose EXCEPT ![p].why = "cancel"]
    /\ reply' = NoReply
    /\ UNCHANGED <<TASKS, POSE_WAITERS, disp, spc, gcWake, now,
                   ticks>>

\* PoseWake without any discard(fut).
PoseWakeLeaky(p) ==
    /\ pose[p].pc = "waiting"
    /\ fut[p].state \in {"resolved", "cancelled"}
    /\ POSE_WAITERS' = POSE_WAITERS
    /\ fut' = [fut EXCEPT ![p] = GoneFut]
    /\ CASE fut[p].state = "resolved" ->
              /\ pose' = [pose EXCEPT ![p] = [IdlePose EXCEPT
                                  !.pc = "capture", !.capAt = now]]
              /\ reply' = NoReply
         [] fut[p].state = "cancelled" /\ pose[p].why = "timeout" ->
              /\ pose' = [pose EXCEPT ![p] = [IdlePose EXCEPT !.pc = "done"]]
              /\ reply' = HTTPError("pose-snapshot", p, 408)
         [] OTHER ->
              /\ pose' = [pose EXCEPT ![p] = [IdlePose EXCEPT !.pc = "done"]]
              /\ reply' = NoReply
    /\ UNCHANGED <<TASKS, disp, spc, gcWake, now, ticks>>

\* main.py:188-197: the coroutine resumes from wait_for.
\*   resolved   finally: discard(fut); go on to the vision bridge call
\*   timed out  except TimeoutError: discard(fut); raise 408; finally: discard
\*   cancelled  finally: discard(fut); CancelledError propagates, no response
PoseWake(p) ==
    /\ pose[p].pc = "waiting"
    /\ fut[p].state \in {"resolved", "cancelled"}
    /\ POSE_WAITERS' = POSE_WAITERS \ {p}
    /\ fut' = [fut EXCEPT ![p] = GoneFut]
    /\ CASE fut[p].state = "resolved" ->
              /\ pose' = [pose EXCEPT ![p] = [IdlePose EXCEPT
                                  !.pc = "capture", !.capAt = now]]
              /\ reply' = NoReply
         [] fut[p].state = "cancelled" /\ pose[p].why = "timeout" ->
              /\ pose' = [pose EXCEPT ![p] = [IdlePose EXCEPT !.pc = "done"]]
              /\ reply' = HTTPError("pose-snapshot", p, 408)
         [] OTHER ->
              /\ pose' = [pose EXCEPT ![p] = [IdlePose EXCEPT !.pc = "done"]]
              /\ reply' = NoReply
    /\ UNCHANGED <<TASKS, disp, spc, gcWake, now, ticks>>

\* main.py:198-211: the answer of the vision bridge arrives.
\* HTTPException(502) is raised inside the try block, where
\* `except Exception` (main.py:209) catches it and raises HTTPException(500).
PoseCaptureReply(p, o) ==
    /\ pose[p].pc = "capture"
    /\ o = "timeout" => now - pose[p].capAt >= VISION_TIMEOUT
    /\ pose' = [pose EXCEPT ![p] = [IdlePose EXCEPT !.pc = "done"]]
    /\ reply' = CASE o = "ok" ->
                       [NoReply EXCEPT !.op = "pose-snapshot", !.call = p,
                                       !.code = 200]
                  [] o = "timeout" -> HTTPError("pose-snapshot", p, 504)
                  [] OTHER -> HTTPError("pose-snapshot", p, 500)
    /\ UNCHANGED <<TASKS, POSE_WAITERS, fut, disp, spc, gcWake, now,
                   ticks>>

\* ------------------------------------------------------ zmq_state_listener
\* main.py:82-90: every future of POSE_WAITERS that is not done gets the
\* message as its result and is discarded from the set.
Completed(waiters) == {p \in waiters : fut[p].state = "pending"}

\* Broadcast without the `if not fut.done()` test.
BroadcastUnchecked(msg) ==
    /\ fut' = [p \in PoseIds |->
                 IF p \in POSE_WAITERS
                 THEN [fut[p] EXCEPT !.state = "resolved", !.result = msg]
                 ELSE fut[p]]
    /\ POSE_WAITERS' = {}

Broadcast(msg) ==
    /\ fut' = [p \in PoseIds |->
                 IF p \in Completed(POSE_WAITERS)
                 THEN [fut[p] EXCEPT !.state = "resolved", !.result = msg]
                 ELSE fut[p]]
    /\ POSE_WAITERS' = POSE_WAITERS \ Completed(POSE_WAITERS)

\* Scan inside the `if pose_close(...)` block: only a convergent message
\* completes tasks.
ScanIfConverged(msg) ==
    [t \in DOMAIN TASKS |->
        IF /\ TASKS[t].status = "running"
           /\ msg.status = "success"
           /\ pose_close(msg.joints)
        THEN [TASKS[t] EXCEPT !.status = "success"]
        ELSE TASKS[t]]

\* Scan without the test `st.status == "running"`.
ScanAnyStatus(msg) ==
    [t \in DOMAIN TASKS |->
        IF msg.status = "success"
        THEN [TASKS[t] EXCEPT !.status = "success"]
        ELSE TASKS[t]]

\* main.py:92-95: every running task becomes success when the message
\* carries status "success".
Scan(msg) ==
    [t \in DOMAIN TASKS |->
        IF TASKS[t].status = "running" /\ msg.status = "success"
        THEN [TASKS[t] EXCEPT !.status = "success"]
        ELSE TASKS[t]]

\* SubRecv with the scan of TASKS in an `else` branch: a convergent message
\* is broadcast to the waiters and the scan is left to the next message.
SubRecvBroadcastOnly(msg) ==
    /\ spc = "recv"
    /\ spc' = IF msg.kind = "nojoints" THEN "recv" ELSE "sleep"
    /\ CASE msg.kind \in {"garbage", "nojoints", "badjoints"} ->
              UNCHANGED <<TASKS, POSE_WAITERS, fut>>
         [] OTHER ->
              IF pose_close(msg.joints)
              THEN Broadcast(msg) /\ TASKS' = TASKS
              ELSE /\ UNCHANGED <<POSE_WAITERS, fut>>
                   /\ TASKS' = Scan(msg)
    /\ reply' = NoReply
    /\ UNCHANGED <<disp, pose, gcWake, now, ticks>>

\* SubRecv without the test for "joints": a message without the field goes
\* on to the scan of TASKS.
SubRecvUnvalidated(msg) ==
    /\ spc = "recv"
    /\ spc' = "sleep"
    /\ CASE msg.kind = "garbage" ->
              UNCHANGED <<TASKS, POSE_WAITERS, fut>>
         [] msg.kind = "badjoints" ->
              UNCHANGED <<TASKS, POSE_WAITERS, fut>>
         [] msg.kind = "nojoints" ->
              /\ TASKS' = Scan(msg)
              /\ UNCHANGED <<POSE_WAITERS, fut>>
         [] OTHER ->
              /\ IF pose_close(msg.joints)
                 THEN Broadcast(msg)
                 ELSE UNCHANGED <<POSE_WAITERS, fut>>
              /\ TASKS' = Scan(msg)
    /\ reply' = NoReply
    /\ UNCHANGED <<disp, pose, gcWake, now, ticks>>

\* main.py:70-100: one turn of the loop, from recv_multipart to the next
\* suspension: sleep(0), or recv_multipart again after `continue`.
SubRecv(msg) ==
    /\ spc = "recv"
    /\ CASE msg.kind = "garbage" ->
              /\ spc' = "sleep"
              /\ UNCHANGED <<TASKS, POSE_WAITERS, fut>>
         [] msg.kind = "nojoints" ->
              /\ spc' = "recv"
              /\ UNCHANGED <<TASKS, POSE_WAITERS, fut>>
         [] msg.kind = "badjoints" ->
              /\ spc' = "sleep"
              /\ UNCHANGED <<TASKS, POSE_WAITERS, fut>>
         [] OTHER ->
              /\ spc' = "sleep"
              /\ IF pose_close(msg.joints)
                 THEN Broadcast(msg)
                 ELSE UNCHANGED <<POSE_WAITERS, fut>>
              /\ TASKS' = Scan(msg)
    /\ reply' = NoReply
    /\ UNCHANGED <<disp, pose, gcWake, now, ticks>>

\* main.py:72, 98-99: recv_multipart itself raises; the error is logged.
SubRecvError ==
    /\ spc = "recv"
    /\ spc' = "sleep"
    /\ reply' = NoReply
    /\ UNCHANGED <<TASKS, POSE_WAITERS, fut, disp, pose, gcWake, now,
                   ticks>>

\* main.py:100: await asyncio.sleep(0.0), then the next turn.
SubSleep ==
    /\ spc = "sleep"
    /\ spc' = "recv"
    /\ reply' = NoReply
    /\ UNCHANGED <<TASKS, POSE_WAITERS, fut, disp, pose, gcWake, now,
                   ticks>>

\* ------------------------------------------------------- cleanup_old_tasks
\* Expired sparing the tasks that are still running.
ExpiredFinished(tasks, current_time) ==
    {tid \in DOMAIN tasks :
        /\ current_time - tasks[tid].created_at > MAX_TASK_AGE
        /\ tasks[tid].status # "running"}

\* Expired without a retention window: a sweep evicts every task.
ExpiredAfterInterval(tasks, current_time) ==
    {tid \in DOMAIN tasks :
        current_time - tasks[tid].created_at >= 0}

\* main.py:109-112
Expired(tasks, current_time) ==
    {tid \in DOMAIN tasks : current_time - tasks[tid].created_at > MAX_TASK_AGE}

\* DoneWaiters without the `if fut.done()` filter.
DoneWaitersAll(waiters) == waiters

\* main.py:118
DoneWaiters(waiters) == {p \in waiters : fut[p].state # "pending"}

\* cleanup_old_tasks that sweeps the waiter set only.
cleanup_waiters_only ==
    /\ now >= gcWake
    /\ TASKS' = TASKS
    /\ POSE_WAITERS' = POSE_WAITERS \ DoneWaiters(POSE_WAITERS)
    /\ gcWake' = now + TASK_CLEANUP_INTERVAL
    /\ reply' = NoReply
    /\ UNCHANGED <<fut, disp, pose, spc, now, ticks>>

\* main.py:104-120: one turn of the loop, after sleep(TASK_CLEANUP_INTERVAL).
cleanup_old_tasks ==
    /\ now >= gcWake
    /\ TASKS' = [t \in DOMAIN TASKS \ Expired(TASKS, now) |-> TASKS[t]]
    /\ POSE_WAITERS' = POSE_WAITERS \ DoneWaiters(POSE_WAITERS)
    /\ gcWake' = now + TASK_CLEANUP_INTERVAL
    /\ reply' = NoReply
    /\ UNCHANGED <<fut, disp, pose, spc, now, ticks>>

\* -------------------------------------------------------------------- time
\* A coroutine that is ready to run runs before the loop waits again, and
\* an HTTP call ends, by an answer or by its timeout, within the timeout of
\* its client; so the clock does not pass these points.
Urgent(d) ==
    \/ \E k \in DispenseIds :
          \/ disp[k].pc = "closing"
          \/ disp[k].pc = "inflight" /\
                now + d > disp[k].issuedAt + INFERENCE_TIMEOUT
    \/ \E p \in PoseIds :
          \/ pose[p].pc = "waiting" /\ fut[p].state # "pending"
          \/ pose[p].pc = "waiting" /\ now + d > pose[p].deadline
          \/ pose[p].pc = "capture" /\ now + d > pose[p].capAt + VISION_TIMEOUT
    \/ spc = "sleep"

Tick(d) ==
    /\ ticks < MaxTicks
    /\ ~Urgent(d)
    /\ now' = now + d
    /\ ticks' = ticks + 1
    /\ reply' = NoReply
    /\ UNCHANGED <<TASKS, POSE_WAITERS, fut, disp, pose, spc, gcWake>>

\* ----------------------------------------------------- vision bridge: snapshot
\* vision_bridge/main.py:50-57: build the key and the camera URL, open the
\* client and issue the GET.
SnapStart(s, req) ==
    /\ Arrives(snap, s)
    /\ snap' = [snap EXCEPT ![s] = [pc |-> "camera", key |-> Key(req, vnow),
                                    issuedAt |-> vnow]]
    /\ vreply' = NoVReply
    /\ UNCHANGED <<bucket, SNAP_OK, SNAP_ERR, vnow>>

\* SnapCameraReply that goes on to sign the URL when the upload has raised.
SnapCameraReplyLenient(s, o, u) ==
    /\ snap[s].pc = "camera"
    /\ o = "timeout" => vnow - snap[s].issuedAt >= CAMERA_TIMEOUT
    /\ CASE o = "ok" ->
              /\ bucket' = IF u = "ok" THEN bucket \cup {snap[s].key}
                                       ELSE bucket
              /\ snap' = [snap EXCEPT ![s].pc = "closing"]
              /\ vreply' = NoVReply
              /\ UNCHANGED SNAP_ERR
         [] o = "non200" ->
              /\ SNAP_ERR' = SNAP_ERR + 2
              /\ snap' = [snap EXCEPT ![s] = [IdleSnap EXCEPT !.pc = "done"]]
              /\ vreply' = VHTTPError("snapshot", s, 500)
              /\ UNCHANGED bucket
         [] o = "timeout" ->
              /\ SNAP_ERR' = SNAP_ERR + 1
              /\ snap' = [snap EXCEPT ![s] = [IdleSnap EXCEPT !.pc = "done"]]
              /\ vreply' = VHTTPError("snapshot", s, 504)
              /\ UNCHANGED bucket
         [] OTHER ->
              /\ SNAP_ERR' = SNAP_ERR + 1
              /\ snap' = [snap EXCEPT ![s] = [IdleSnap EXCEPT !.pc = "done"]]
              /\ vreply' = VHTTPError("snapshot", s, 500)
              /\ UNCHANGED bucket
    /\ UNCHANGED <<SNAP_OK, vnow>>

\* vision_bridge/main.py:57-65 and 71-78: the camera's answer arrives; on 200
\* the bytes are uploaded (a blocking call) with outcome u.
\* HTTPException(502) is raised, after SNAP_ERR.inc(), inside the try block,
\* where `except Exception` (line 75) catches it, increments SNAP_ERR again
\* and raises HTTPException(500).
SnapCameraReply(s, o, u) ==
    /\ snap[s].pc = "camera"
    /\ o = "timeout" => vnow - snap[s].issuedAt >= CAMERA_TIMEOUT
    /\ CASE o = "ok" /\ u = "ok" ->
              /\ bucket' = bucket \cup {snap[s].key}
              /\ snap' = [snap EXCEPT ![s].pc = "closing"]
              /\ vreply' = NoVReply
              /\ UNCHANGED SNAP_ERR
         [] o = "ok" /\ u # "ok" ->
              /\ SNAP_ERR' = SNAP_ERR + 1
              /\ snap' = [snap EXCEPT ![s] = [IdleSnap EXCEPT !.pc = "done"]]
              /\ vreply' = VHTTPError("snapshot", s, 500)
              /\ UNCHANGED bucket
         [] o = "non200" ->
              /\ SNAP_ERR' = SNAP_ERR + 2
              /\ snap' = [snap EXCEPT ![s] = [IdleSnap EXCEPT !.pc = "done"]]
              /\ vreply' = VHTTPError("snapshot", s, 500)
              /\ UNCHANGED bucket
         [] o = "timeout" ->
              /\ SNAP_ERR' = SNAP_ERR + 1
              /\ snap' = [snap EXCEPT ![s] = [IdleSnap EXCEPT !.pc = "done"]]
              /\ vreply' = VHTTPError("snapshot", s, 504)
              /\ UNCHANGED bucket
         [] OTHER ->
              /\ SNAP_ERR' = SNAP_ERR + 1
              /\ snap' = [snap EXCEPT ![s] = [IdleSnap EXCEPT !.pc = "done"]]
              /\ vreply' = VHTTPError("snapshot", s, 500)
              /\ UNCHANGED bucket
    /\ UNCHANGED <<SNAP_OK, vnow>>

\* vision_bridge/main.py:67-70 and 75-78, after the client context has
\* closed: SNAP_OK.inc(), then the URL is signed with outcome g and returned.
SnapReturn(s, g) ==
    /\ snap[s].pc = "closing"
    /\ SNAP_OK' = SNAP_OK + 1
    /\ snap' = [snap EXCEPT ![s] = [IdleSnap EXCEPT !.pc = "done"]]
    /\ IF g = "ok"
       THEN /\ vreply' = [NoVReply EXCEPT !.op = "snapshot", !.call = s,
                                          !.code = 200, !.url = snap[s].key]
            /\ UNCHANGED SNAP_ERR
       ELSE /\ vreply' = VHTTPError("snapshot", s, 500)
            /\ SNAP_ERR' = SNAP_ERR + 1
    /\ UNCHANGED <<bucket, vnow>>

\* ------------------------------------------------ vision bridge: color_checker
\* vision_bridge/main.py:87.
imdecode(file) ==
    CASE file = "text" -> "None"
      [] file = "empty" -> "raises"
      [] OTHER -> "image"

\* vision_bridge/main.py:82-101.  HTTPException(400) is raised inside the try
\* block, where `except Exception` (line 99) catches it and raises
\* HTTPException(500).
color_checker(file) ==
    /\ vreply' =
          CASE imdecode(file) = "None" -> VHTTPError("color-checker", 0, 500)
            [] imdecode(file) = "raises" -> VHTTPError("color-checker", 0, 500)
            [] file = "hard" -> VHTTPError("color-checker", 0, 500)
            [] OTHER -> [NoVReply EXCEPT !.op = "color-checker", !.code = 200,
                            !.detections = IF file = "chart" THEN 1 ELSE 0]
    /\ UNCHANGED <<snap, bucket, SNAP_OK, SNAP_ERR, vnow>>

\* The vision bridge's clock: a camera call ends within the timeout of its
\* client, and a coroutine that is ready runs before the loop waits.
VTick ==
    /\ vnow < MaxTicks * CAMERA_TIMEOUT
    /\ \A s \in SnapIds :
          /\ snap[s].pc # "closing"
          /\ snap[s].pc = "camera" =>
                vnow + CAMERA_TIMEOUT <= snap[s].issuedAt + CAMERA_TIMEOUT
    /\ vnow' = vnow + CAMERA_TIMEOUT
    /\ vreply' = NoVReply
    /\ UNCHANGED <<snap, bucket, SNAP_OK, SNAP_ERR>>

\* ------------------------------------------ detect_segments_from_matrix
\* demo2rules.py:199-246.  Frames are numbered as in Python: frame i of T is
\* i in 0..T-1, row i + 1 of mat.  Positions are in hundredths, times in
\* tenths of a second, velocities in hundredths per second.
MaxFrames == 6      \* frames of a trajectory

\* np.diff of a one-dimensional array.
np_diff(s) == [i \in 1..(Len(s) - 1) |-> s[i + 1] - s[i]]

\* Twice np.median(s), for s not empty (an integer, where the median of an
\* even number of values may be a half).
median2(s) ==
    LET srt == SortSeq(s, LAMBDA a, b : a < b)
        n == Len(s)
    IN  IF n % 2 = 1 THEN 2 * srt[(n + 1) \div 2]
        ELSE srt[n \div 2] + srt[n \div 2 + 1]

\* The square of np.linalg.norm(b - a, ord=2) for two rows.
RECURSIVE norm2(_, _)
norm2(a, b) ==
    IF a = <<>> THEN 0
    ELSE (Head(b) - Head(a)) * (Head(b) - Head(a)) + norm2(Tail(a), Tail(b))

\* demo2rules.py:221-232: vel[i] < th, where vel[0] = 0.0 and vel[i] is the
\* norm of (mat[i] - mat[i-1]) / dt, dt the median of the timestamps' steps.
\* With m2 = 2 dt in tenths of a second, vel[i] = 20 * norm / m2 hundredths
\* per second.
vel_below(t, m, i, th) ==
    IF i = 0 THEN 0 < th
    ELSE 400 * norm2(m[i], m[i + 1]) <
            (th * median2(np_diff(t))) * (th * median2(np_diff(t)))

\* demo2rules.py:234-241: static[i], the largest velocity of the frames
\* i - half .. i + half (cut at both ends of the array) being below th.
static(t, m, i, th, w) ==
    LET half == w \div 2
        lo == IF i - half < 0 THEN 0 ELSE i - half
        hi == IF i + half > Len(m) - 1 THEN Len(m) - 1 ELSE i + half
    IN  \A j \in lo..hi : vel_below(t, m, j, th)

\* demo2rules.py:243: [i + 1 for i in range(n) if not static[i] and
\* static[i + 1]].
RECURSIVE edges(_, _, _, _, _)
edges(t, m, th, w, n) ==
    IF n = 0 THEN <<>>
    ELSE edges(t, m, th, w, n - 1) \o
            (IF ~static(t, m, n - 1, th, w) /\ static(t, m, n, th, w)
             THEN <<n>> ELSE <<>>)

\* edges with the last frame always appended (line 244 without its test).
boundaries_always_appended(t, m, th, w) ==
    edges(t, m, th, w, Len(m) - 1) \o <<Len(m) - 1>>

\* demo2rules.py:243-245: the last frame is appended unless it is the last
\* edge already.
boundaries(t, m, th, w) ==
    LET e == edges(t, m, th, w, Len(m) - 1)
    IN  IF e = <<>> \/ e[Len(e)] # Len(m) - 1
        THEN e \o <<Len(m) - 1>>
        ELSE e

\* demo2rules.py:210-246.  mat is two-dimensional here (line 214-215 makes
\* it so).
detect_segments_from_matrix(t, m, th, w) ==
    IF Len(t) < 2 THEN <<>>
    ELSE IF Len(m[1]) = 0 THEN << <<0, Len(t) - 1>> >>
    ELSE LET b == boundaries(t, m, th, w)
         IN  [k \in 1..(Len(b) - 1) |-> <<b[k], b[k + 1]>>]

\* The inputs of a call: T frames sampled every dt tenths of a second, the
\* last one possibly a period late; rows of no, one or two columns.
SamplePeriods == {1, 5}
Timestamps(T, dt, late) ==
    [i \in 1..T |-> (i - 1) * dt + (IF late /\ i = T THEN dt ELSE 0)]

Rows(D) ==
    CASE D = 0 -> {<<>>}
      [] D = 1 -> {<<0>>, <<1>>, <<50>>}
      [] OTHER -> {<<0, 0>>, <<3, 4>>, <<50, 0>>, <<100, 0>>}

Trajectories(T) == UNION {[1..T -> Rows(D)] : D \in 0..2}
VelThreshs == {3, 10}     \* 0.03, the default, and 0.1
Windows == {1, 3, 15}     \* 15 is the default

\* demo2rules.py:408: the call, on a trajectory that was loaded.
InitSegments ==
    /\ InitServices
    /\ \E T \in 0..MaxFrames, dt \in SamplePeriods, late \in BOOLEAN :
          /\ ts = Timestamps(T, dt, late)
          /\ mat \in Trajectories(T)
    /\ vel_thresh \in VelThreshs
    /\ window \in Windows
    /\ segments = NotRun

Detect ==
    /\ segments = NotRun
    /\ segments' = detect_segments_from_matrix(ts, mat, vel_thresh, window)
    /\ UNCHANGED <<ts, mat, vel_thresh, window>>

NextSegments == Detect /\ UNCHANGED <<rvars, vvars, lvars>>
SpecSegments == InitSegments /\ [][NextSegments]_vars

\* ------------------------------------------------------------- lock steps
NextLocks ==
    /\ \/ \E f \in Flows : Resume(f)
       \/ \E f \in Flows : Step(f)
    /\ UNCHANGED <<rvars, vvars, dvars>>

SpecLocks == Init /\ [][NextLocks]_vars

\* The loop runs: a coroutine that holds the loop executes its next
\* statement, and one that waits for a free lock is resumed.
SpecLocksFair ==
    /\ SpecLocks
    /\ \A f \in Flows :
          /\ WF_lvars(Step(f))
          /\ WF_lvars(Cur(f).op = "acquire" /\ Resume(f))

\* -------------------------------------------------------------------- Next
\* The subscriber, the garbage collector and the clock.
Background ==
    \/ \E msg \in Msgs : SubRecv(msg)
    \/ SubRecvError
    \/ SubSleep
    \/ cleanup_old_tasks
    \/ \E d \in TickSteps : Tick(d)

\* The handlers that work on the task registry.
TaskCalls ==
    \/ \E req \in Requests : DispenseReject(req)
    \/ \E d \in DispenseIds, req \in Requests : DispenseStart(d, req)
    \/ \E d \in DispenseIds, o \in InferenceOutcomes : DispenseReply(d, o)
    \/ \E d \in DispenseIds : DispenseReturn(d)
    \/ \E cmd \in CmdIds : status(cmd)

\* The handler that works on the waiter set.
PoseCalls ==
    \/ \E p \in PoseIds, cmd \in PoseCmdIds : PoseRegister(p, cmd)
    \/ \E p \in PoseIds : PoseTimerFire(p)
    \/ \E p \in PoseIds : PoseCancel(p)
    \/ \E p \in PoseIds : PoseWake(p)
    \/ \E p \in PoseIds, o \in VisionOutcomes : PoseCaptureReply(p, o)

\* The handlers of the vision bridge, and its clock.
VisionCalls ==
    \/ \E s \in SnapIds, req \in SnapReqs : SnapStart(s, req)
    \/ \E s \in SnapIds, o \in CameraOutcomes, u \in S3Outcomes :
          SnapCameraReply(s, o, u)
    \/ \E s \in SnapIds, g \in S3Outcomes : SnapReturn(s, g)
    \/ \E file \in Uploads : color_checker(file)
    \/ VTick

Next ==
    \/ (TaskCalls \/ PoseCalls \/ Background) /\ UNCHANGED <<vvars, dvars, lvars>>
    \/ VisionCalls /\ UNCHANGED <<rvars, dvars, lvars>>

Spec == Init /\ [][Next]_vars

\* dispense and status touch TASKS and never the waiter set; pose_snapshot
\* touches the waiter set and never TASKS.  SpecTasks and SpecPose are the
\* service with requests of one of the two families only.
NextTasks == (TaskCalls \/ Background) /\ UNCHANGED <<vvars, dvars, lvars>>
SpecTasks == Init /\ [][NextTasks]_vars

NextPose == (PoseCalls \/ Background) /\ UNCHANGED <<vvars, dvars, lvars>>
SpecPose == Init /\ [][NextPose]_vars

\* pose_snapshot with the loop running every ready callback (a due timer
\* fires, a woken coroutine resumes), the vision bridge call ending within
\* its client's timeout, and the clock reaching the next deadline.
SpecPoseFair ==
    /\ SpecPose
    /\ \A p \in PoseIds :
          /\ WF_rvars(PoseTimerFire(p))
          /\ WF_rvars(PoseWake(p))
          /\ WF_rvars(\E o \in VisionOutcomes : PoseCaptureReply(p, o))
    /\ WF_rvars(SubSleep)
    /\ SF_rvars(Tick(POSE_WAIT_TIMEOUT))

\* dispense and status with the garbage collector's loop running: a sweep
\* that is due happens.
SpecTasksFair == SpecTasks /\ WF_rvars(cleanup_old_tasks)

\* dispense and status with an inference endpoint that may also leave the
\* predicted duration out of its answer.
NextDispense ==
    /\ \/ \E req \in Requests : DispenseReject(req)
       \/ \E d \in DispenseIds, req \in Requests : DispenseStart(d, req)
       \/ \E d \in DispenseIds, o \in InferenceAnswers : DispenseReply(d, o)
       \/ \E d \in DispenseIds : DispenseReturn(d)
       \/ \E cmd \in CmdIds : status(cmd)
       \/ Background
    /\ UNCHANGED <<vvars, dvars, lvars>>
SpecDispense == Init /\ [][NextDispense]_vars

\* The vision bridge alone.
NextVision == VisionCalls /\ UNCHANGED <<rvars, dvars, lvars>>
SpecVision == Init /\ [][NextVision]_vars

\* The three families of requests, one family per behaviour: dispense and
\* status, pose_snapshot, or the vision bridge's.  The families work on
\* disjoint structures (the vision bridge is another process), so a family
\* is served as it would be among the others.
TasksQuiet == \A d \in DispenseIds : disp[d].pc = "idle"
PoseQuiet == \A p \in PoseIds : pose[p].pc = "idle"
RobotQuiet ==
    TasksQuiet /\ PoseQuiet /\ ticks = 0 /\ spc = "recv" /\ reply = NoReply
VisionQuiet ==
    vnow = 0 /\ vreply = NoVReply /\ \A s \in SnapIds : snap[s].pc = "idle"

NextFamilies ==
    \/ PoseQuiet /\ VisionQuiet /\ TaskCalls /\ UNCHANGED <<vvars, dvars, lvars>>
    \/ TasksQuiet /\ VisionQuiet /\ PoseCalls /\ UNCHANGED <<vvars, dvars, lvars>>
    \/ VisionQuiet /\ Background /\ UNCHANGED <<vvars, dvars, lvars>>
    \/ RobotQuiet /\ VisionCalls /\ UNCHANGED <<rvars, dvars, lvars>>

SpecFamilies == Init /\ [][NextFamilies]_vars

\* An outbound HTTP call ends, by an answer or by the timeout of its client,
\* and the coroutine that awaited it runs on.
SpecFamiliesFair ==
    /\ SpecFamilies
    /\ \A d \in DispenseIds :
          /\ WF_rvars(\E o \in InferenceOutcomes : DispenseReply(d, o))
          /\ WF_rvars(DispenseReturn(d))
    /\ \A p \in PoseIds :
          WF_rvars(\E o \in VisionOutcomes : PoseCaptureReply(p, o))
    /\ \A s \in SnapIds :
          /\ WF_vvars(\E o \in CameraOutcomes, u \in S3Outcomes :
                       SnapCameraReply(s, o, u))
          /\ WF_vvars(\E g \in S3Outcomes : SnapReturn(s, g))

\* The robot service while telemetry arrives and the clock stands still:
\* dispense calls up to the answer of the inference endpoint, pose-snapshot
\* calls up to the capture, and the subscriber, with neither a timeout nor a
\* sweep.
NextEvents ==
    /\ \/ \E d \in DispenseIds, req \in Requests : DispenseStart(d, req)
       \/ \E d \in DispenseIds, o \in InferenceOutcomes : DispenseReply(d, o)
       \/ \E p \in PoseIds, cmd \in PoseCmdIds : PoseRegister(p, cmd)
       \/ \E p \in PoseIds : PoseWake(p)
       \/ \E msg \in Msgs : SubRecv(msg)
       \/ SubRecvError
       \/ SubSleep
    /\ UNCHANGED <<vvars, dvars, lvars>>
SpecEvents == Init /\ [][NextEvents]_vars

\* pose_snapshot among the tasks: the first dispense, whose task the
\* pose-snapshot calls may name while it is running, success, failed or
\* evicted, the pose-snapshot calls of callers that stay, the garbage
\* collector, the clock, and the subscriber with a message that converges
\* and reports success, one that converges only, and one that reports
\* success only.
EventMsgs ==
    { Msg("ok", JointsNear, "success"),
      Msg("ok", JointsShort, ""),
      Msg("ok", JointsEdge, "success") }

NextPoseTasks ==
    /\ \/ \E req \in Requests : DispenseStart(1, req)
       \/ \E o \in InferenceOutcomes : DispenseReply(1, o)
       \/ DispenseReturn(1)
       \/ \E p \in PoseIds, cmd \in PoseCmdIds : PoseRegister(p, cmd)
       \/ \E p \in PoseIds : PoseTimerFire(p)
       \/ \E p \in PoseIds : PoseWake(p)
       \/ \E p \in PoseIds, o \in VisionOutcomes : PoseCaptureReply(p, o)
       \/ \E msg \in EventMsgs : SubRecv(msg)
       \/ SubSleep
       \/ cleanup_old_tasks
       \/ \E d \in TickSteps : Tick(d)
    /\ UNCHANGED <<vvars, dvars, lvars>>
SpecPoseTasks == Init /\ [][NextPoseTasks]_vars

\* =================================================================== claims

\* C1: the status of a task never changes once it is success or failed; the
\* only status transitions are running -> success and running -> failed.
C1_StatusMonotonic ==
    [][\A t \in DOMAIN TASKS \cap DOMAIN TASKS' :
          TASKS'[t].status # TASKS[t].status =>
              /\ TASKS[t].status = "running"
              /\ TASKS'[t].status \in {"success", "failed"}]_vars

\* C2: when the inference call of a dispense has failed, the task of that
\* dispense is failed in the registry when the error response is sent, and
\* every status query for it from then on answers failed (or 404 once it is
\* evicted), never running.
C2_FailureRecorded ==
    \A d \in DispenseIds :
        disp[d].pc = "raised" =>
            /\ d \in DOMAIN TASKS => TASKS[d].status = "failed"
            /\ (reply.op = "dispense" /\ reply.call = d) =>
                  /\ reply.code >= 500
                  /\ d \in DOMAIN TASKS
            /\ (reply.op = "status" /\ reply.cmd_id = d) =>
                  \/ reply.code = 404
                  \/ reply.code = 200 /\ reply.status = "failed"

\* A status query answers failed for the task of a dispense that has failed.
C2_Witness ==
    \E d \in DispenseIds :
        /\ disp[d].pc = "raised"
        /\ reply.op = "status" /\ reply.cmd_id = d
        /\ reply.code = 200 /\ reply.status = "failed"

\* C3 as claimed: when the inference endpoint answers 200, the dispense
\* response reports status running, whatever telemetry was processed while
\* the call was in flight.
C3_ResponseRunning ==
    (reply.op = "dispense" /\ reply.code = 200) => reply.status = "running"

\* C3 amended: when the inference endpoint answers 200, the dispense
\* response reports the status the registry holds for the new task at that
\* moment: running or success, never failed; and the task of a dispense that
\* has not answered yet leaves running only by a telemetry message with
\* status "success" or by the failure of its own inference call.
C3_ResponseCurrent ==
    /\ [](\A d \in DispenseIds :
            (reply.op = "dispense" /\ reply.call = d /\ reply.code = 200) =>
                /\ disp[d].pc = "returned"
                /\ reply.cmd_id = d
                /\ d \in DOMAIN TASKS
                /\ reply.status = TASKS[d].status
                /\ reply.status \in {"running", "success"})
    /\ [][\A d \in DispenseIds :
            (/\ disp[d].pc \in {"inflight", "closing"}
             /\ d \in DOMAIN TASKS /\ d \in DOMAIN TASKS'
             /\ TASKS[d].status = "running"
             /\ TASKS'[d].status # "running") =>
                \/ /\ TASKS'[d].status = "success"
                   /\ \E msg \in Msgs : msg.status = "success" /\ SubRecv(msg)
                \/ /\ TASKS'[d].status = "failed"
                   /\ disp'[d].pc = "raised"]_vars

\* A dispense response with status success.
C3_Witness ==
    reply.op = "dispense" /\ reply.code = 200 /\ reply.status = "success"

\* C4: one convergent message resolves every waiter that is pending in the
\* set, whatever its cmd_id, with that message, and takes it out of the set;
\* a future that is resolved, timed out or cancelled is never resolved
\* (again): its state and result stay until its call drops it.
C4_BroadcastOnce ==
    [][/\ \A msg \in Msgs :
             (msg.kind = "ok" /\ pose_close(msg.joints) /\ SubRecv(msg)) =>
                 \A p \in PoseIds :
                     (p \in POSE_WAITERS /\ fut[p].state = "pending") =>
                         /\ fut'[p].state = "resolved"
                         /\ fut'[p].result = msg
                         /\ p \notin POSE_WAITERS'
       /\ \A p \in PoseIds :
             fut[p].state \in {"resolved", "cancelled", "gone"} =>
                 \/ fut'[p] = fut[p]
                 \/ fut'[p].state = "gone" /\ pose[p].pc = "waiting"]_vars

\* Two waiters with different cmd_ids hold the same message as result and
\* are out of the set, before either call has resumed.
C4_Witness ==
    /\ fut[1].state = "resolved" /\ fut[2].state = "resolved"
    /\ fut[1].result = fut[2].result
    /\ fut[1].result.kind = "ok"
    /\ pose[1].cmd # pose[2].cmd
    /\ POSE_WAITERS = {}

\* C5: a waiter comes out of its registration pending, whatever message was
\* processed before; it leaves pending only when a convergent message is
\* processed after that (and gets that message), when its own timer fires at
\* or after its deadline, or when its caller cancels.
C5_NoStaleResolve ==
    [][\A p \in PoseIds :
          /\ (pose[p].pc = "idle" /\ pose'[p].pc # "idle") =>
                /\ pose'[p].pc = "waiting"
                /\ fut'[p].state = "pending"
                /\ p \in POSE_WAITERS'
          /\ (fut[p].state = "pending" /\ fut'[p].state # "pending") =>
                \/ /\ fut'[p].state = "resolved"
                   /\ \E msg \in Msgs :
                         /\ msg.kind = "ok" /\ pose_close(msg.joints)
                         /\ SubRecv(msg)
                         /\ fut'[p].result = msg
                \/ /\ fut'[p].state = "cancelled"
                   /\ pose'[p].why = "timeout"
                   /\ now >= pose[p].deadline
                \/ /\ fut'[p].state = "cancelled"
                   /\ pose'[p].why = "cancel"]_vars

\* One call has been resolved and gone on to the capture; the other one,
\* registered since, is pending in the set.
C5_Witness ==
    \E p, q \in PoseIds :
        /\ pose[p].pc = "capture"
        /\ pose[q].pc = "waiting" /\ fut[q].state = "pending"
        /\ q \in POSE_WAITERS

\* C6: a pose-snapshot call answers 408 only when its timer has cancelled
\* its future at or after the deadline, the future not having been resolved;
\* a resolved future stays resolved and its call goes on to the capture; and
\* a call whose deadline is due, or can still be reached by the clock, does
\* not wait forever.
C6_TimeoutAtDeadline ==
    /\ [][\A p \in PoseIds :
            /\ (reply'.op = "pose-snapshot" /\ reply'.call = p
                                            /\ reply'.code = 408) =>
                  /\ pose[p].pc = "waiting"
                  /\ fut[p].state = "cancelled" /\ pose[p].why = "timeout"
                  /\ now >= pose[p].deadline
            /\ (pose[p].pc = "waiting" /\ pose'[p].pc # "waiting") =>
                  \/ /\ fut[p].state = "resolved"
                     /\ pose'[p].pc = "capture"
                     /\ reply' = NoReply
                  \/ /\ fut[p].state = "cancelled" /\ pose[p].why = "timeout"
                     /\ reply'.op = "pose-snapshot" /\ reply'.call = p
                     /\ reply'.code = 408
                  \/ /\ fut[p].state = "cancelled" /\ pose[p].why = "cancel"
                     /\ reply' = NoReply
            /\ (fut[p].state = "pending" /\ fut'[p].state = "cancelled"
                                         /\ pose'[p].why = "timeout") =>
                  now >= pose[p].deadline
            /\ fut[p].state = "resolved" =>
                  fut'[p].state \in {"resolved", "gone"}]_vars
    /\ \A p \in PoseIds :
          (pose[p].pc = "waiting" /\
                (now >= pose[p].deadline \/ ticks < MaxTicks))
             ~> (pose[p].pc # "waiting")

\* A call has just answered 408, the clock being at or past the 30 s after
\* some registration.
C6_Witness ==
    /\ reply.op = "pose-snapshot" /\ reply.code = 408
    /\ now >= POSE_WAIT_TIMEOUT
    /\ pose[reply.call].pc = "done"

\* C7: a call that is not waiting (it was resolved, timed out or cancelled
\* and has resumed, or has not registered yet) has no future in the waiter
\* set; so a future that is pending in the set belongs to a waiting call.
C7_NoLeak ==
    \A p \in PoseIds :
        /\ pose[p].pc # "waiting" => p \notin POSE_WAITERS
        /\ (p \in POSE_WAITERS /\ fut[p].state = "pending") =>
              pose[p].pc = "waiting"

\* A call has timed out and answered 408 while the other call is still
\* waiting with its future pending in the set.
C7_Witness ==
    \E p, q \in PoseIds :
        /\ reply.op = "pose-snapshot" /\ reply.call = p /\ reply.code = 408
        /\ pose[p].pc = "done"
        /\ pose[q].pc = "waiting" /\ fut[q].state = "pending"
        /\ POSE_WAITERS = {q}

\* The componentwise statement of convergence, on the indices the vector
\* and the target share.
Within(q) ==
    \A i \in DOMAIN q \cap DOMAIN TARGET_POSE :
        Abs(q[i] - TARGET_POSE[i]) < TOL

\* Six-component vectors with one component anywhere from -(TOL+1) to TOL+1
\* and the others at 0 or at TOL-1 from the target.
ProbeVectors ==
    { [i \in DOMAIN TARGET_POSE |->
          TARGET_POSE[i] + (IF i = k THEN v ELSE w)] :
        k \in DOMAIN TARGET_POSE,
        v \in (0 - TOL - 1)..(TOL + 1),
        w \in {0, TOL - 1} }

\* C8: pose_close(q) is exactly "every component is strictly nearer than TOL
\* to the target's"; a message whose vector has a component at distance TOL
\* or more resolves no waiter, and one whose vector is within TOL resolves
\* every pending one.
C8_StrictComponentwise ==
    /\ \A q \in ProbeVectors : pose_close(q) <=> Within(q)
    /\ [][\A msg \in Msgs :
            (msg.kind = "ok" /\ SubRecv(msg)) =>
                IF Within(msg.joints)
                THEN \A p \in PoseIds :
                        (p \in POSE_WAITERS /\ fut[p].state = "pending") =>
                            fut'[p].state = "resolved" /\ fut'[p].result = msg
                ELSE UNCHANGED <<fut, POSE_WAITERS>>]_vars

\* A waiter resolved by the message whose components are all at TOL-1 from
\* the target, the vectors with a component at exactly TOL or -TOL being
\* outside.
C8_Witness ==
    \E p \in PoseIds :
        /\ fut[p].state = "resolved"
        /\ fut[p].result.joints = JointsNear
        /\ Within(fut[p].result.joints)
        /\ ~Within(JointsEdge) /\ ~Within(JointsEdgeN)

\* C9: the task of a dispense is put in the registry, under a fresh id and
\* with status running, by the step that issues the inference call and
\* before that call is in flight; no call is in flight for an id that is
\* not registered.
C9_RegisteredBeforeCall ==
    /\ [](\A d \in DispenseIds : disp[d].pc = "inflight" => d \in DOMAIN TASKS)
    /\ [][\A d \in DispenseIds :
            (disp[d].pc = "idle" /\ disp'[d].pc # "idle") =>
                /\ disp'[d].pc = "inflight"
                /\ d \notin DOMAIN TASKS
                /\ d \in DOMAIN TASKS'
                /\ TASKS'[d].status = "running"
                /\ TASKS'[d].predicted_squeeze_sec = "null"
                /\ TASKS'[d].created_at = now]_vars

\* An inference call in flight for a task that is running, while another
\* task is already in the registry.
C9_Witness ==
    \E d \in DispenseIds :
        /\ disp[d].pc = "inflight"
        /\ TASKS[d].status = "running"
        /\ DOMAIN TASKS # {d}

\* The declared ranges of a dispense request.
InRange(req) ==
    /\ req.colour \in {"red", "green", "blue"}
    /\ 0 < req.volume_ml
    /\ req.volume_ml <= 50

\* C10: a dispense request with a colour other than red/green/blue or a
\* volume outside (0, 50] never starts a dispense, and the step that answers
\* 422 changes neither the registry nor the waiter set nor any call.
C10_InvalidRejected ==
    [][/\ \A req \in Requests : ~InRange(req) =>
             \A d \in DispenseIds : ~DispenseStart(d, req)
       /\ (reply'.op = "dispense" /\ reply'.code = 422) =>
             UNCHANGED <<TASKS, POSE_WAITERS, fut, disp, pose>>
       /\ \A req \in Requests : DispenseReject(req) =>
             (~InRange(req) /\ reply'.code = 422)]_vars

\* A request has just been rejected while a task is in the registry and its
\* inference call in flight.
C10_Witness ==
    /\ reply.op = "dispense" /\ reply.code = 422
    /\ \E d \in DispenseIds : d \in DOMAIN TASKS /\ disp[d].pc = "inflight"

\* C11: a non-200 answer of a downstream service is surfaced as 502: the
\* step of dispense that receives a non-200 answer of the inference endpoint
\* answers 502, and so does the step of pose_snapshot that receives a
\* non-200 answer of the vision bridge.
C11_NonOkIs502 ==
    [][/\ \A d \in DispenseIds :
             DispenseReply(d, "non200") => reply'.code = 502
       /\ \A p \in PoseIds :
             PoseCaptureReply(p, "non200") => reply'.code = 502]_vars

\* C12: each outbound HTTP call is bounded by the timeout of its client (60 s
\* for the inference call, 30 s for the vision bridge call, 10 s for the
\* camera call); the step in which the timeout expires answers 504, and
\* nothing else; and a handler that awaits such a call does not wait
\* forever.
C12_TimeoutIs504 ==
    /\ [](/\ \A d \in DispenseIds : disp[d].pc = "inflight" =>
                now - disp[d].issuedAt <= 60
          /\ \A p \in PoseIds : pose[p].pc = "capture" =>
                now - pose[p].capAt <= 30
          /\ \A s \in SnapIds : snap[s].pc = "camera" =>
                vnow - snap[s].issuedAt <= 10)
    /\ [][/\ \A d \in DispenseIds : DispenseReply(d, "timeout") =>
                /\ now - disp[d].issuedAt >= 60
                /\ reply'.op = "dispense" /\ reply'.call = d
                /\ reply'.code = 504
                /\ disp'[d].pc = "raised"
          /\ \A p \in PoseIds : PoseCaptureReply(p, "timeout") =>
                /\ now - pose[p].capAt >= 30
                /\ reply'.op = "pose-snapshot" /\ reply'.call = p
                /\ reply'.code = 504
                /\ pose'[p].pc = "done"
          /\ \A s \in SnapIds : (\E u \in S3Outcomes :
                                    SnapCameraReply(s, "timeout", u)) =>
                /\ vnow - snap[s].issuedAt >= 10
                /\ vreply'.op = "snapshot" /\ vreply'.call = s
                /\ vreply'.code = 504
                /\ vreply'.url = NoKey
                /\ snap'[s].pc = "done"]_vars
    /\ \A d \in DispenseIds :
          (disp[d].pc = "inflight") ~> (disp[d].pc \in {"returned", "raised"})
    /\ \A p \in PoseIds : (pose[p].pc = "capture") ~> (pose[p].pc = "done")
    /\ \A s \in SnapIds : (snap[s].pc = "camera") ~> (snap[s].pc = "done")

\* The inference call of a dispense has just timed out, 60 s after it was
\* issued, and was answered 504.
C12_Witness ==
    /\ reply.op = "dispense" /\ reply.code = 504
    /\ now >= 60
    /\ disp[reply.call].pc = "raised"

\* C13: a telemetry message with a joint vector changes task statuses iff
\* its status is "success", whether or not its joints converge: then every
\* running task becomes success; every other task, every predicted duration
\* and creation time, and the set of task ids stay as they are.
C13_ScanEffect ==
    [][\A msg \in Msgs :
          (msg.kind = "ok" /\ SubRecv(msg)) =>
              /\ DOMAIN TASKS' = DOMAIN TASKS
              /\ \A t \in DOMAIN TASKS :
                    /\ TASKS'[t].predicted_squeeze_sec =
                          TASKS[t].predicted_squeeze_sec
                    /\ TASKS'[t].created_at = TASKS[t].created_at
                    /\ TASKS'[t].status =
                          IF msg.status = "success" /\
                                TASKS[t].status = "running"
                          THEN "success"
                          ELSE TASKS[t].status]_vars

\* The subscriber has just processed a message; one task is success, another
\* one, failed before, is still failed.
C13_Witness ==
    /\ spc = "sleep"
    /\ \E t, u \in DOMAIN TASKS :
          TASKS[t].status = "success" /\ TASKS[u].status = "failed"

\* C14: a feed message that is no JSON, or has no "joints" field (whatever
\* its status), and an error raised by the receive itself, change neither
\* the task registry nor the waiter set nor any future; the subscriber is
\* then at its sleep or at its receive, never stopped: from the sleep it
\* goes to the receive, and at the receive it takes a next message.
C14_BadMessageDropped ==
    /\ [][/\ \A msg \in Msgs :
                (msg.kind \in {"garbage", "nojoints"} /\ SubRecv(msg)) =>
                    /\ UNCHANGED <<TASKS, POSE_WAITERS, fut>>
                    /\ spc' \in {"recv", "sleep"}
          /\ SubRecvError =>
                /\ UNCHANGED <<TASKS, POSE_WAITERS, fut>>
                /\ spc' = "sleep"]_vars
    /\ [](/\ spc \in {"recv", "sleep"}
          /\ spc = "sleep" => ENABLED SubSleep
          /\ spc = "recv" => \E msg \in Msgs : ENABLED SubRecv(msg))

\* The subscriber is at its sleep after a message that left running the
\* task of a dispense that has returned.
C14_Witness ==
    /\ spc = "sleep"
    /\ \E t \in DOMAIN TASKS : TASKS[t].status = "running"
    /\ \E d \in DispenseIds : disp[d].pc = "returned"

C17_StatusPureRead ==
    /\ [][/\ \A cmd \in CmdIds :
                status(cmd) =>
                    /\ UNCHANGED <<TASKS, POSE_WAITERS, fut, disp, pose>>
                    /\ reply'.op = "status" /\ reply'.cmd_id = cmd
                    /\ IF cmd \in DOMAIN TASKS
                       THEN /\ reply'.code = 200
                            /\ reply'.status = TASKS[cmd].status
                            /\ reply'.predicted_squeeze_sec =
                                  TASKS[cmd].predicted_squeeze_sec
                            /\ reply'.created_at = TASKS[cmd].created_at
                       ELSE reply'.code = 404
          /\ \A cmd \in CmdIds :
                (reply.op = "status" /\ reply.cmd_id = cmd /\ status(cmd)) =>
                    reply' = reply
          /\ TASKS' # TASKS =>
                \/ \E d \in DispenseIds, req \in Requests : DispenseStart(d, req)
                \/ \E d \in DispenseIds, o \in InferenceOutcomes :
                      DispenseReply(d, o)
                \/ \E d \in DispenseIds : DispenseReturn(d)
                \/ \E msg \in Msgs : SubRecv(msg)
                \/ cleanup_old_tasks]_vars

\* A status query has just answered with the running record of a task whose
\* dispense is still awaiting the inference endpoint.
C17_Witness ==
    \E d \in DispenseIds :
        /\ disp[d].pc = "inflight"
        /\ reply.op = "status" /\ reply.cmd_id = d
        /\ reply.code = 200 /\ reply.status = "running"

\* C18: a snapshot response carries a URL iff it is a 200, and the URL is
\* that of the request's own key, which is in the bucket by then; a request
\* gets past the camera call only by a 200 of the camera followed by an
\* upload that returned; and when the camera call or the upload fails the
\* response is an error without URL and nothing is added to the bucket.
C18_UrlOnlyAfterUpload ==
    /\ [](vreply.op = "snapshot" =>
            /\ vreply.code = 200 <=> vreply.url # NoKey
            /\ vreply.code = 200 => vreply.url \in bucket
            /\ vreply.code # 200 => vreply.code >= 500)
    /\ [][\A s \in SnapIds :
            /\ (vreply'.op = "snapshot" /\ vreply'.call = s
                                        /\ vreply'.code = 200) =>
                  /\ snap[s].pc = "closing"
                  /\ vreply'.url = snap[s].key
                  /\ snap[s].key \in bucket
            /\ (snap[s].pc # "closing" /\ snap'[s].pc = "closing") =>
                  /\ SnapCameraReply(s, "ok", "ok")
                  /\ snap[s].key \in bucket'
            /\ \A o \in CameraOutcomes, u \in S3Outcomes :
                  (~(o = "ok" /\ u = "ok") /\ SnapCameraReply(s, o, u)) =>
                      /\ vreply'.op = "snapshot" /\ vreply'.call = s
                      /\ vreply'.code >= 500
                      /\ vreply'.url = NoKey
                      /\ bucket' = bucket
                      /\ snap'[s].pc = "done"]_vars

\* A snapshot request has just been answered with the URL of its uploaded
\* object, after another request failed.
C18_Witness ==
    /\ vreply.op = "snapshot" /\ vreply.code = 200
    /\ vreply.url \in bucket
    /\ SNAP_ERR > 0

\* C19: when the inference endpoint answers 200 with predicted duration v
\* (or without one), v is what the registry holds for the task from then on;
\* the dispense response carries the task's id and that v; the task stays
\* running unless a telemetry message with status "success" is processed or
\* its own call fails; and a status query that follows the response gets the
\* same status, predicted duration and creation time.
C19_DispenseThenStatus ==
    /\ [](\A d \in DispenseIds :
            (reply.op = "dispense" /\ reply.call = d /\ reply.code = 200) =>
                /\ reply.cmd_id = d
                /\ d \in DOMAIN TASKS
                /\ reply.predicted_squeeze_sec = TASKS[d].predicted_squeeze_sec)
    /\ [][\A d \in DispenseIds :
            /\ DispenseReply(d, "ok") =>
                  TASKS'[d].predicted_squeeze_sec = "1.23"
            /\ DispenseReply(d, "ok_null") =>
                  TASKS'[d].predicted_squeeze_sec = "null"
            /\ (disp[d].pc \in {"closing", "returned"}
                   /\ d \in DOMAIN TASKS /\ d \in DOMAIN TASKS') =>
                  TASKS'[d].predicted_squeeze_sec =
                      TASKS[d].predicted_squeeze_sec
            /\ (d \in DOMAIN TASKS /\ d \in DOMAIN TASKS'
                   /\ TASKS[d].status = "running"
                   /\ TASKS'[d].status # "running") =>
                  \/ \E msg \in Msgs : msg.status = "success" /\ SubRecv(msg)
                  \/ disp'[d].pc = "raised"
            /\ (reply.op = "dispense" /\ reply.call = d /\ reply.code = 200
                   /\ status(d)) =>
                  /\ reply'.code = 200
                  /\ reply'.cmd_id = d
                  /\ reply'.status = reply.status
                  /\ reply'.predicted_squeeze_sec =
                        reply.predicted_squeeze_sec
                  /\ reply'.created_at = reply.created_at]_vars

\* A status query has just answered running with predicted duration 1.23
\* for the task of a dispense that has returned.
C19_Witness ==
    \E d \in DispenseIds :
        /\ disp[d].pc = "returned"
        /\ reply.op = "status" /\ reply.cmd_id = d /\ reply.code = 200
        /\ reply.status = "running"
        /\ reply.predicted_squeeze_sec = "1.23"

\* C20: a /color-checker upload whose bytes are no image is answered 400.
C20_InvalidImageIs400 ==
    [][color_checker("text") =>
          (vreply'.op = "color-checker" /\ vreply'.code = 400)]_vars

\* Frame i (Python's numbering) moves: its velocity is not below the
\* threshold of the call.
Moves(i) == ~vel_below(ts, mat, i, vel_thresh)

\* The trajectory moves up to frame a, rests up to frame b, for at least n
\* frames, and moves again up to the last frame.
MovesRestsMoves(n) ==
    \E a, b \in 1..(Len(mat) - 2) :
        /\ b - a >= n
        /\ \A i \in 1..a : Moves(i)
        /\ \A i \in (a + 1)..b : ~Moves(i)
        /\ \A i \in (b + 1)..(Len(mat) - 1) : Moves(i)

\* The segments are the consecutive pairs of a strictly increasing list of
\* frame indices that ends with the last frame.
SegmentsChain ==
    /\ \A k \in 1..Len(segments) :
          /\ segments[k][1] \in 0..(Len(mat) - 1)
          /\ segments[k][2] \in 0..(Len(mat) - 1)
          /\ segments[k][1] < segments[k][2]
    /\ \A k \in 2..Len(segments) : segments[k][1] = segments[k - 1][2]
    /\ Len(segments) > 0 => segments[Len(segments)][2] = Len(mat) - 1

\* C21 as claimed: for a trajectory of at least 2 frames and at least one
\* column, the segments returned are the consecutive pairs of a strictly
\* increasing list of boundary indices that ends with the last frame; and a
\* trajectory that moves, then rests, then moves again until the last frame
\* yields exactly one segment.
C21_OneSegmentAnyWindow ==
    (segments # NotRun /\ Len(ts) >= 2 /\ Len(mat[1]) >= 1) =>
        /\ SegmentsChain
        /\ MovesRestsMoves(1) => Len(segments) = 1

\* C21 amended: the segments returned are the consecutive pairs of a
\* strictly increasing list of boundary indices that ends with the last
\* frame; and a trajectory that moves, then rests for at least
\* 2 * (window // 2) + 1 frames (one frame when window is 1), then moves again
\* until the last frame yields exactly one segment, which starts in the
\* rest and ends at the last frame.
C21_OneSegmentLongRest ==
    (segments # NotRun /\ Len(ts) >= 2 /\ Len(mat[1]) >= 1) =>
        /\ SegmentsChain
        /\ MovesRestsMoves(2 * (window \div 2) + 1) =>
              /\ Len(segments) = 1
              /\ ~Moves(segments[1][1])
              /\ segments[1][2] = Len(mat) - 1

\* The call has returned the one segment (2, 5) for the six frames that
\* move, rest for three frames and move again, velocities judged frame by
\* frame.
C21_Witness ==
    /\ ts = <<0, 5, 10, 15, 20, 25>>
    /\ mat = << <<0, 0>>, <<50, 0>>, <<50, 0>>, <<50, 0>>, <<50, 0>>,
                <<100, 0>> >>
    /\ vel_thresh = 10 /\ window = 1
    /\ segments = << <<2, 5>> >>

\* The coroutines that are inside a block of the lock.
Inside(lock) == {f \in Flows : lock \in Cur(f).held}

\* C22: every access to TASKS is made inside a block of TASKS_LOCK and every
\* access to POSE_WAITERS inside a block of POSE_WAITERS_LOCK, by a
\* coroutine that holds the lock; no await is inside a block of either lock,
\* and a coroutine that is suspended holds no lock; so at most one coroutine
\* is inside the blocks of a lock at a time.
C22_LockDiscipline ==
    /\ \A f \in Flows : \A l \in DOMAIN CodeOf(f) :
          /\ CodeOf(f)[l].op = "touch" =>
                LockOf(CodeOf(f)[l].on) \in CodeOf(f)[l].held
          /\ Suspends(CodeOf(f)[l]) => CodeOf(f)[l].held = {}
    /\ \A f \in Flows :
          /\ Cur(f).op = "touch" => Holder(LockOf(Cur(f).on)) = f
          /\ \A lock \in Cur(f).held : Holder(lock) = f
          /\ (cur # f \/ Suspends(Cur(f))) =>
                (TASKS_LOCK # f /\ POSE_WAITERS_LOCK # f)
    /\ Cardinality(Inside("TASKS_LOCK")) <= 1
    /\ Cardinality(Inside("POSE_WAITERS_LOCK")) <= 1

\* The subscriber scans TASKS, holding TASKS_LOCK, while a dispense awaits
\* the inference endpoint and a pose-snapshot awaits the pose.
C22_Witness ==
    /\ cur = <<"zmq_state_listener", 0>>
    /\ label[<<"zmq_state_listener", 0>>] = "93"
    /\ TASKS_LOCK = <<"zmq_state_listener", 0>>
    /\ label[<<"dispense", 1>>] = "142"
    /\ label[<<"pose_snapshot", 1>>] = "188"

\* C23: the subscriber handles one message per turn: in the step that
\* receives a message with a joint vector, every waiter that was pending in
\* the set is resolved with that message when it converges and every
\* running task is marked success when it reports success, before the
\* subscriber is back at its receive (it goes through its sleep first); a
\* waiter is resolved, and a task marked success, only by such a step, with
\* the message of that step; and the subscriber is suspended only at its
\* receive or at its sleep, never between the broadcast and the scan.
C23_EventsOneAtATime ==
    /\ [][/\ \A msg \in Msgs :
                (msg.kind = "ok" /\ SubRecv(msg)) =>
                    /\ spc' = "sleep"
                    /\ pose_close(msg.joints) =>
                          \A p \in PoseIds :
                              /\ ~(p \in POSE_WAITERS' /\
                                      fut'[p].state = "pending")
                              /\ (p \in POSE_WAITERS /\
                                      fut[p].state = "pending") =>
                                    fut'[p].result = msg
                    /\ msg.status = "success" =>
                          \A t \in DOMAIN TASKS' :
                              TASKS'[t].status # "running"
          /\ \A p \in PoseIds :
                (fut[p].state # "resolved" /\ fut'[p].state = "resolved") =>
                    \E msg \in Msgs : SubRecv(msg) /\ fut'[p].result = msg
          /\ \A t \in DOMAIN TASKS \cap DOMAIN TASKS' :
                (TASKS[t].status # "success" /\
                      TASKS'[t].status = "success") =>
                    \E msg \in Msgs : msg.status = "success" /\ SubRecv(msg)
          /\ spc = "sleep" => (spc' = "recv" \/ UNCHANGED spc)]_vars
    /\ [](spc \in {"recv", "sleep"})

\* The subscriber has just handled a convergent message that reports
\* success: two waiters hold it as their result, a task is success, and
\* nothing is left pending or running.
C23_Witness ==
    /\ spc = "sleep"
    /\ fut[1].state = "resolved" /\ fut[2].state = "resolved"
    /\ fut[1].result = fut[2].result
    /\ fut[1].result.status = "success"
    /\ \E t \in DOMAIN TASKS : TASKS[t].status = "success"
    /\ \A t \in DOMAIN TASKS : TASKS[t].status # "running"

\* C24: a sweep takes out of the waiter set exactly the futures that are
\* done (resolved or cancelled) and changes no future; a future that is
\* pending stays in the set through every sweep, so the next convergent
\* message resolves it.
C24_SweepKeepsPending ==
    /\ [][/\ cleanup_old_tasks =>
                /\ fut' = fut
                /\ POSE_WAITERS' \subseteq POSE_WAITERS
                /\ \A p \in POSE_WAITERS :
                      p \in POSE_WAITERS' <=> fut[p].state = "pending"
          /\ \A msg \in Msgs :
                (msg.kind = "ok" /\ pose_close(msg.joints) /\ SubRecv(msg)) =>
                    \A p \in PoseIds :
                        (pose[p].pc = "waiting" /\ fut[p].state = "pending") =>
                            fut'[p].state = "resolved"]_vars
    /\ [](\A p \in PoseIds :
            (pose[p].pc = "waiting" /\ fut[p].state = "pending") =>
                p \in POSE_WAITERS)

\* A sweep has taken the cancelled future of the second call out of the set
\* before that call resumed, and left the pending future of the first call,
\* which a convergent message has resolved since.
C24_Witness ==
    /\ pose[2].pc = "waiting" /\ fut[2].state = "cancelled"
    /\ 2 \notin POSE_WAITERS
    /\ pose[1].pc = "waiting" /\ fut[1].state = "resolved"
    /\ fut[1].result.kind = "ok"

\* Vectors of 0 to 8 components, all at the target but one.
ShortAndLongVectors ==
    { [i \in 1..n |-> IF i = k THEN v ELSE 0] :
        n \in 0..(Len(TARGET_POSE) + 2), k \in 1..(Len(TARGET_POSE) + 2),
        v \in {0 - TOL, 1 - TOL, 0, TOL - 1, TOL, TOL + 5} }

\* C25: pose_close compares the first min(len(q), len(TARGET_POSE))
\* components only: a vector shorter than the target converges when the
\* components it has are within tolerance, the empty vector always, and the
\* components beyond the target's length are ignored; so a message with
\* `joints: []` resolves every pending waiter of the set.
C25_ZipTruncates ==
    /\ \A q \in ShortAndLongVectors :
          pose_close(q) <=>
              \A i \in 1..Min(Len(q), Len(TARGET_POSE)) :
                  Abs(q[i] - TARGET_POSE[i]) < TOL
    /\ pose_close(<<>>)
    /\ pose_close(JointsLong) /\ ~pose_close(<<0, TOL>>)
    /\ [][SubRecv(Msg("ok", <<>>, "")) =>
             \A p \in PoseIds :
                 (p \in POSE_WAITERS /\ fut[p].state = "pending") =>
                     /\ fut'[p].state = "resolved"
                     /\ fut'[p].result.joints = <<>>
                     /\ p \notin POSE_WAITERS']_vars

\* Two waiters hold the message with the empty joint vector as their
\* result.
C25_Witness ==
    /\ fut[1].state = "resolved" /\ fut[2].state = "resolved"
    /\ fut[1].result = Msg("ok", <<>>, "")
    /\ fut[2].result = Msg("ok", <<>>, "")

\* C26: a task that is failed stays failed, with its predicted duration and
\* creation time, as long as it is in the registry, whatever telemetry is
\* processed and whatever the dispense calls do; it leaves the registry only
\* by a sweep, when it is older than MAX_TASK_AGE.
C26_FailedIsFinal ==
    [][\A t \in DOMAIN TASKS :
          TASKS[t].status = "failed" =>
              IF t \in DOMAIN TASKS'
              THEN TASKS'[t] = TASKS[t]
              ELSE /\ cleanup_old_tasks
                   /\ now - TASKS[t].created_at > MAX_TASK_AGE]_vars

\* The first task is failed; the second one, created at least 3600 s after
\* it, was marked success by a message processed since.
C26_Witness ==
    /\ 1 \in DOMAIN TASKS /\ 2 \in DOMAIN TASKS
    /\ TASKS[1].status = "failed"
    /\ TASKS[2].created_at >= TASKS[1].created_at + MAX_TASK_AGE
    /\ TASKS[2].status = "success"

\* C27: no coroutine holds TASKS_LOCK and POSE_WAITERS_LOCK at the same
\* time: every `async with` is entered by a coroutine that holds no lock;
\* the lock a coroutine is about to take is free, so no coroutine ever waits
\* for a lock; and a coroutine that is about to take a lock gets it.
C27_NoNestedLocks ==
    /\ [](\A f \in Flows :
            /\ ~(TASKS_LOCK = f /\ POSE_WAITERS_LOCK = f)
            /\ Cur(f).op = "acquire" =>
                  /\ TASKS_LOCK # f /\ POSE_WAITERS_LOCK # f
                  /\ Holder(Cur(f).on) = NoFlow
                  /\ cur = f)
    /\ \A f \in Flows :
          \A lock \in {"TASKS_LOCK", "POSE_WAITERS_LOCK"} :
              (Cur(f).op = "acquire" /\ Cur(f).on = lock)
                  ~> (Holder(lock) = f)

\* The garbage collector holds POSE_WAITERS_LOCK for its second block, the
\* lock of its first block being free again, while a dispense and a
\* pose-snapshot are suspended in their calls.
C27_Witness ==
    /\ label[<<"cleanup_old_tasks", 0>>] = "118"
    /\ POSE_WAITERS_LOCK = <<"cleanup_old_tasks", 0>>
    /\ TASKS_LOCK = NoFlow
    /\ label[<<"dispense", 1>>] = "153"
    /\ label[<<"pose_snapshot", 1>>] = "200"

\* C28: the step that answers a snapshot request increments exactly one of
\* SNAP_OK and SNAP_ERR, by one: SNAP_OK when it answers with a URL, SNAP_ERR
\* when it answers with an error; and no other step changes a counter.
C28_OneCounterOnce ==
    [][/\ \A s \in SnapIds :
             (snap[s].pc # "done" /\ snap'[s].pc = "done") =>
                 IF vreply'.code = 200
                 THEN SNAP_OK' = SNAP_OK + 1 /\ SNAP_ERR' = SNAP_ERR
                 ELSE SNAP_ERR' = SNAP_ERR + 1 /\ SNAP_OK' = SNAP_OK
       /\ (\A s \in SnapIds : snap'[s].pc = "done" => snap[s].pc = "done") =>
             UNCHANGED <<SNAP_OK, SNAP_ERR>>]_vars

\* C29: no step of pose_snapshot changes the task registry, and a call can
\* register whatever its cmd_id and whatever the registry holds; of two
\* calls with different cmd_ids whose futures are pending in the set, a step
\* resolves both, with the same message, or neither, and when they have the
\* same deadline the timer of one is due iff the timer of the other is; and
\* pose_snapshot never answers 404.
C29_CmdIdIrrelevant ==
    /\ [](/\ ~(reply.op = "pose-snapshot" /\ reply.code = 404)
          /\ \A p \in PoseIds : \A c1, c2 \in PoseCmdIds :
                ENABLED PoseRegister(p, c1) <=> ENABLED PoseRegister(p, c2)
          /\ \A p, q \in PoseIds :
                (/\ pose[p].pc = "waiting" /\ pose[q].pc = "waiting"
                 /\ fut[p].state = "pending" /\ fut[q].state = "pending"
                 /\ pose[p].cmd # pose[q].cmd
                 /\ pose[p].deadline = pose[q].deadline) =>
                    (ENABLED PoseTimerFire(p) <=> ENABLED PoseTimerFire(q)))
    /\ [][/\ (pose' # pose) => TASKS' = TASKS
          /\ \A p, q \in PoseIds :
                (/\ p \in POSE_WAITERS /\ q \in POSE_WAITERS
                 /\ fut[p].state = "pending" /\ fut[q].state = "pending"
                 /\ pose[p].cmd # pose[q].cmd) =>
                    /\ fut'[p].state = "resolved" <=> fut'[q].state = "resolved"
                    /\ fut'[p].state = "resolved" =>
                          fut'[p].result = fut'[q].result]_vars

\* Two calls are resolved by the same message: one named the task that is
\* running in the registry, the other an id the registry never held.
C29_Witness ==
    /\ pose[1].pc = "waiting" /\ pose[2].pc = "waiting"
    /\ fut[1].state = "resolved" /\ fut[2].state = "resolved"
    /\ fut[1].result = fut[2].result
    /\ pose[1].cmd # pose[2].cmd
    /\ \E c \in {pose[1].cmd, pose[2].cmd} :
          c \in DOMAIN TASKS /\ TASKS[c].status = "running"

====
